---- MODULE Spec2Model ----
(***************************************************************************)
(* Model of the park CRUD front-end: the create form (ParkForm), the edit  *)
(* form (ParkEditForm), the record card's delete flow (ParkCard) inside    *)
(* the two list views (Home, ParkList), the useDeletePark hook and the     *)
(* detail page (ParkDetail), together with the HTTP requests in flight.    *)
(*                                                                         *)
(* Strings are sequences of one-character strings, so that trim, length,   *)
(* upper-casing and the regular expressions of the validation rules are    *)
(* computed, not assumed.                                                  *)
(***************************************************************************)
EXTENDS Integers, Sequences, FiniteSets, TLC

(***************************************************************************)
(* Bounds of the model.                                                    *)
(***************************************************************************)
\* identifiers of the records the remote collection may hold: 1..MaxParks
MaxParks == 2
\* field changes a user makes in one form session
MaxEdits == 2
\* delayed validations (setTimeout) pending at once
MaxTimers == 1
\* retry confirmations counted for one user action
MaxRetries == 1

ParkIds == 1..MaxParks

(***************************************************************************)
(* Characters and strings.                                                 *)
(***************************************************************************)
LowerSeq == <<"a","b","c","d","e","f","g","h","i","j","k","l","m","n","o","p","q","r","s","t","u","v","w","x","y","z","a'","e'","i'","o'","u'","n~">>
UpperSeq == <<"A","B","C","D","E","F","G","H","I","J","K","L","M","N","O","P","Q","R","S","T","U","V","W","X","Y","Z","A'","E'","I'","O'","U'","N~">>

Range(f) == {f[i] : i \in DOMAIN f}

\* the character class [a-zA-ZáéíóúÁÉÍÓÚñÑ] of the rules
Letters == Range(LowerSeq) \cup Range(UpperSeq)
Digits == {"0","1","2","3","4","5","6","7","8","9"}
\* \s of the regular expressions and the characters String.trim removes
Whitespace == {" ", "\t", "\n"}

IndexOf(c, seq) == CHOOSE i \in DOMAIN seq : seq[i] = c

\* String.prototype.toUpperCase / toLowerCase, one character
UpperChar(c) == IF c \in Range(LowerSeq) THEN UpperSeq[IndexOf(c, LowerSeq)] ELSE c
LowerChar(c) == IF c \in Range(UpperSeq) THEN LowerSeq[IndexOf(c, UpperSeq)] ELSE c
toUpperCase(s) == [i \in DOMAIN s |-> UpperChar(s[i])]
toLowerCase(s) == [i \in DOMAIN s |-> LowerChar(s[i])]

\* String.prototype.trim
TrimStart(s) ==
    LET kept == {i \in DOMAIN s : s[i] \notin Whitespace}
    IN  IF kept = {} THEN <<>> ELSE SubSeq(s, CHOOSE i \in kept : \A j \in kept : i <= j, Len(s))
TrimEnd(s) ==
    LET kept == {i \in DOMAIN s : s[i] \notin Whitespace}
    IN  IF kept = {} THEN <<>> ELSE SubSeq(s, 1, CHOOSE i \in kept : \A j \in kept : i >= j)
trim(s) == TrimEnd(TrimStart(s))

AllIn(s, class) == \A i \in DOMAIN s : s[i] \in class
StartsWith(s, p) == Len(s) >= Len(p) /\ SubSeq(s, 1, Len(p)) = p

(***************************************************************************)
(* Numbers held as text.  A numeric string is read as the exact fraction   *)
(* num / den; anything else is NaN.                                        *)
(***************************************************************************)
DigitVal(c) == CHOOSE n \in 0..9 : <<"0","1","2","3","4","5","6","7","8","9">>[n + 1] = c

RECURSIVE DigitsVal(_)
DigitsVal(s) == IF s = <<>> THEN 0 ELSE 10 * DigitsVal(SubSeq(s, 1, Len(s) - 1)) + DigitVal(s[Len(s)])

RECURSIVE Pow10(_)
Pow10(n) == IF n = 0 THEN 1 ELSE 10 * Pow10(n - 1)

NaN == [nan |-> TRUE, num |-> 0, den |-> 1]

\* unsigned decimal literal: digits, optionally a point and more digits
UnsignedNumber(s) ==
    LET dots == {i \in DOMAIN s : s[i] = "."}
    IN  IF s = <<>> \/ Cardinality(dots) > 1 \/ ~AllIn(s, Digits \cup {"."}) \/ s = <<".">>
        THEN NaN
        ELSE IF dots = {}
             THEN [nan |-> FALSE, num |-> DigitsVal(s), den |-> 1]
             ELSE LET d == CHOOSE i \in dots : TRUE
                      ip == SubSeq(s, 1, d - 1)
                      fp == SubSeq(s, d + 1, Len(s))
                  IN  [nan |-> FALSE, num |-> DigitsVal(ip) * Pow10(Len(fp)) + DigitsVal(fp), den |-> Pow10(Len(fp))]

\* the string-to-number coercion applied by isNaN(value) and value < 20
ToNumber(s) ==
    LET t == trim(s)
    IN  IF t = <<>> THEN [nan |-> FALSE, num |-> 0, den |-> 1]
        ELSE IF Head(t) \in {"-", "+"}
             THEN LET u == UnsignedNumber(Tail(t))
                  IN  IF u.nan THEN NaN
                      ELSE [nan |-> FALSE, num |-> IF Head(t) = "-" THEN 0 - u.num ELSE u.num, den |-> u.den]
             ELSE UnsignedNumber(t)

\* x < k/kd and x > k/kd on exact fractions (both false on NaN, as in JavaScript)
NumLess(x, k, kd) == ~x.nan /\ x.num * kd < k * x.den
NumGreater(x, k, kd) == ~x.nan /\ x.num * kd > k * x.den

(***************************************************************************)
(* Validation Rules (useFormValidation, identical in both forms).          *)
(***************************************************************************)
\* keys of formData in insertion order
KeyOrder == <<"park_name", "park_abbreviation", "park_img_url", "park_address", "park_city", "park_state", "park_zip_code", "park_latitude", "park_longitude">>
Fields == Range(KeyOrder)

\* a rule's "no error" result
Null == "null"
\* the value validate stores under a key when the rule reports no error
Undefined == "undefined"

Str_http == <<"h","t","t","p",":","/","/">>
Str_https == <<"h","t","t","p","s",":","/","/">>
ImgExtensions == { <<"j","p","g">>, <<"j","p","e","g">>, <<"p","n","g">>, <<"w","e","b","p">> }

\* /^https?:\/\/.+\.(jpg|jpeg|png|webp)(\?.*)?$/i
ImgUrlMatches(value) ==
    LET v == toLowerCase(value)
    IN  \E p \in {Str_http, Str_https}, ext \in ImgExtensions, k \in 1..Len(v) :
            /\ StartsWith(v, p)
            /\ k > Len(p) + 1
            /\ v[k] = "."
            /\ k + Len(ext) <= Len(v)
            /\ SubSeq(v, k + 1, k + Len(ext)) = ext
            /\ (k + Len(ext) = Len(v) \/ v[k + Len(ext) + 1] = "?")
            /\ \A i \in (Len(p) + 1)..Len(v) : v[i] # "\n"

\* /^4[4-5]\d{3}$/
ZipMatches(value) ==
    /\ Len(value) = 5
    /\ value[1] = "4"
    /\ value[2] \in {"4", "5"}
    /\ \A i \in 3..5 : value[i] \in Digits

validCities ==
    { <<"Z","a","p","o","p","a","n">>,
      <<"G","u","a","d","a","l","a","j","a","r","a">>,
      <<"S","a","n"," ","P","e","d","r","o"," ","T","l","a","q","u","e","p","a","q","u","e">>,
      <<"T","o","n","a","l","a'">> }

\* validationRules[name], one rule per key; park_state has none
park_name(value) ==
    IF trim(value) = <<>> THEN "El nombre es requerido"
    ELSE IF Len(value) < 3 THEN "Minimo 3 caracteres"
    ELSE IF Len(value) > 100 THEN "Maximo 100 caracteres"
    ELSE IF ~AllIn(trim(value), Letters \cup Whitespace) THEN "Solo letras y espacios"
    ELSE Null

park_abbreviation(value) ==
    IF trim(value) = <<>> THEN "La abreviacion es requerida"
    ELSE IF Len(value) < 2 THEN "Minimo 2 caracteres"
    ELSE IF Len(value) > 10 THEN "Maximo 10 caracteres"
    ELSE IF ~AllIn(trim(value), Letters) THEN "Solo letras"
    ELSE Null

park_img_url(value) ==
    IF trim(value) = <<>> THEN "La URL es requerida"
    ELSE IF ~ImgUrlMatches(value) THEN "URL invalida (.jpg, .jpeg, .png, .webp)"
    ELSE Null

\* the rule of lines 31-36 with the maximum of line 34 left out
park_addressWithoutMaximum(value) ==
    IF trim(value) = <<>> THEN "La direccion es requerida"
    ELSE IF Len(value) < 10 THEN "Minimo 10 caracteres"
    ELSE Null

park_address(value) ==
    IF trim(value) = <<>> THEN "La direccion es requerida"
    ELSE IF Len(value) < 10 THEN "Minimo 10 caracteres"
    ELSE IF Len(value) > 150 THEN "Maximo 150 caracteres"
    ELSE Null

park_city(value) ==
    IF value = <<>> THEN "La ciudad es requerida"
    ELSE IF value \notin validCities THEN "Ciudad no valida"
    ELSE Null

park_zip_code(value) ==
    IF value = <<>> THEN "El codigo postal es requerido"
    ELSE IF ~ZipMatches(value) THEN "Codigo invalido para Jalisco (44xxx o 45xxx)"
    ELSE Null

park_latitude(value) ==
    IF value = <<>> THEN "La latitud es requerida"
    ELSE IF ToNumber(value).nan \/ NumLess(ToNumber(value), 20, 1) \/ NumGreater(ToNumber(value), 215, 10)
         THEN "Latitud invalida para Jalisco (20-21.5)"
    ELSE Null

park_longitude(value) ==
    IF value = <<>> THEN "La longitud es requerida"
    ELSE IF ToNumber(value).nan \/ NumLess(ToNumber(value), 0 - 105, 1) \/ NumGreater(ToNumber(value), 0 - 102, 1)
         THEN "Longitud invalida para Jalisco (-105 a -102)"
    ELSE Null

\* validationRules[name]?.(value): the rule's message, Null when the rule
\* passes or when the key has no rule
validationRules(name, value) ==
    CASE name = "park_name" -> park_name(value)
      [] name = "park_abbreviation" -> park_abbreviation(value)
      [] name = "park_img_url" -> park_img_url(value)
      [] name = "park_address" -> park_address(value)
      [] name = "park_city" -> park_city(value)
      [] name = "park_zip_code" -> park_zip_code(value)
      [] name = "park_latitude" -> park_latitude(value)
      [] name = "park_longitude" -> park_longitude(value)
      [] OTHER -> Null

\* validateAll storing the result of every rule, as validate does (line 62),
\* in place of the `if (error)` of line 72
newErrorsEveryKey(formDataArg) ==
    [key \in DOMAIN formDataArg |->
        IF validationRules(key, formDataArg[key]) # Null THEN validationRules(key, formDataArg[key]) ELSE Undefined]

\* the errors object validateAll builds: one entry per key whose rule fails
newErrors(formDataArg) ==
    LET failing == {key \in DOMAIN formDataArg : validationRules(key, formDataArg[key]) # Null}
    IN  [key \in failing |-> validationRules(key, formDataArg[key])]

\* the boolean validateAll returns
validateAll(formDataArg) == DOMAIN newErrors(formDataArg) = {}

\* the errors object after validate(name, value) ran on prev
validate(prev, name, value) ==
    LET error == validationRules(name, value)
    IN  [key \in DOMAIN prev \cup {name} |->
            IF key = name THEN (IF error # Null THEN error ELSE Undefined) ELSE prev[key]]

(***************************************************************************)
(* Numeric conversions of the submit transformation.                       *)
(***************************************************************************)
\* longest prefix of s made of characters of class
RECURSIVE PrefixIn(_, _)
PrefixIn(s, class) == IF s # <<>> /\ Head(s) \in class THEN <<Head(s)>> \o PrefixIn(Tail(s), class) ELSE <<>>

\* parseInt(s): optional sign and the leading digits, NaN without a digit
parseInt(s) ==
    LET t == TrimStart(s)
        signed == t # <<>> /\ Head(t) \in {"-", "+"}
        body == IF signed THEN Tail(t) ELSE t
        ds == PrefixIn(body, Digits)
    IN  IF ds = <<>> THEN NaN
        ELSE [nan |-> FALSE, num |-> IF signed /\ Head(t) = "-" THEN 0 - DigitsVal(ds) ELSE DigitsVal(ds), den |-> 1]

\* parseFloat(s): optional sign, leading digits, optionally a point and digits
parseFloat(s) ==
    LET t == TrimStart(s)
        signed == t # <<>> /\ Head(t) \in {"-", "+"}
        body == IF signed THEN Tail(t) ELSE t
        ip == PrefixIn(body, Digits)
        rest == SubSeq(body, Len(ip) + 1, Len(body))
        fp == IF rest # <<>> /\ Head(rest) = "." THEN PrefixIn(Tail(rest), Digits) ELSE <<>>
        mag == DigitsVal(ip) * Pow10(Len(fp)) + DigitsVal(fp)
    IN  IF ip = <<>> /\ fp = <<>> THEN NaN
        ELSE [nan |-> FALSE, num |-> IF signed /\ Head(t) = "-" THEN 0 - mag ELSE mag, den |-> Pow10(Len(fp))]

\* Number.prototype.toString of a non-negative integer
RECURSIVE IntToString(_)
IntToString(n) ==
    IF n < 10 THEN << <<"0","1","2","3","4","5","6","7","8","9">>[n + 1] >>
    ELSE IntToString(n \div 10) \o << <<"0","1","2","3","4","5","6","7","8","9">>[(n % 10) + 1] >>

(***************************************************************************)
(* Values a user types and records the remote collection returns.          *)
(***************************************************************************)
Str_Lago == <<"L","a","g","o">>
Str_lg == <<"l","g">>
Str_imgUrl == <<"h","t","t","p",":","/","/","x",".","j","p","g">>
Str_address == <<"C","a","l","l","e"," ","U","n","o"," ","1">>
Str_Zapopan == <<"Z","a","p","o","p","a","n">>
Str_Leon == <<"L","e","o","n">>
Str_Jalisco == <<"J","a","l","i","s","c","o">>
Str_zip == <<"4","4","1","0","0">>
Str_lat == <<"2","0",".","7">>
Str_lon == <<"-","1","0","3",".","4">>

\* useState initial value of formData in both forms
InitialFormData ==
    [park_name |-> <<>>, park_abbreviation |-> <<>>, park_img_url |-> <<>>,
     park_address |-> <<>>, park_city |-> <<>>, park_state |-> Str_Jalisco,
     park_zip_code |-> <<>>, park_latitude |-> <<>>, park_longitude |-> <<>>]

\* a draft a user reaches by filling in every input once
FilledFormData ==
    [park_name |-> Str_Lago, park_abbreviation |-> Str_lg, park_img_url |-> Str_imgUrl,
     park_address |-> Str_address, park_city |-> Str_Zapopan, park_state |-> Str_Jalisco,
     park_zip_code |-> Str_zip, park_latitude |-> Str_lat, park_longitude |-> Str_lon]

\* the errors object once the delayed validation of each of those inputs ran
FilledErrors == [key \in Fields \ {"park_state"} |-> Undefined]

\* values the modelled user enters into the input called name
InputValues(name) ==
    CASE name = "park_name" -> {<<>>, Str_Lago}
      [] name = "park_abbreviation" -> {Str_lg}
      [] name = "park_city" -> {Str_Zapopan, Str_Leon}
      [] OTHER -> {}

\* bodies GET /parks/{id} may answer with (before the optional envelope)
RemotePark(id) ==
    [id |-> id, park_name |-> Str_Lago, park_abbreviation |-> toUpperCase(Str_lg), park_img_url |-> Str_imgUrl,
     park_address |-> Str_address, park_city |-> Str_Zapopan, park_state |-> Str_Jalisco,
     park_zip_code |-> 44100, park_latitude |-> Str_lat, park_longitude |-> Str_lon]
\* a record whose city is outside the client's enumerated set
RemoteParkOtherCity(id) == [RemotePark(id) EXCEPT !.park_city = Str_Leon]
\* a malformed payload: the name is missing
RemoteParkNoName(id) == [RemotePark(id) EXCEPT !.park_name = <<>>]
RemoteParks(id) == {RemotePark(id), RemoteParkOtherCity(id), RemoteParkNoName(id)}

(***************************************************************************)
(* Failures a call can end with, as the axios error object.                *)
(***************************************************************************)
\* status 0 stands for "no response" (error.response undefined)
NoResponse == 0
ErrorStatuses == {400, 401, 403, 404, 409, 422, 500, 503}
HttpFailures == {[status |-> st, code |-> "ERR_BAD_RESPONSE", message |-> (st = 400)] : st \in ErrorStatuses}
TimeoutFailure == [status |-> NoResponse, code |-> "ECONNABORTED", message |-> FALSE]
NetworkFailure == [status |-> NoResponse, code |-> "ERR_NETWORK", message |-> FALSE]
Failures == HttpFailures \cup {TimeoutFailure, NetworkFailure}
\* statuses axios resolves the call with
SuccessStatuses == {200, 201, 204}

(***************************************************************************)
(* State.                                                                  *)
(***************************************************************************)
VARIABLES
    page,          \* the mounted route: "boot" before the first route is opened
    online,        \* navigator.onLine
    net,           \* HTTP requests in flight
    \* ParkForm / ParkEditForm (one of them is mounted at a time)
    formData, originalData, errors, timers, isSubmitting, editLoading,
    routeId,       \* useParams().id of the edit and detail routes, 0 elsewhere
    fpc,           \* where the form's async handlers stand
    fswal,         \* the popup the form shows
    edits,         \* field changes made in this form session
    \* Home / ParkList and their ParkCards
    parks, homeLoading,
    listSwal,      \* the popup of fetchParks
    cpc, isDeleting, cswal,
    cbParks,       \* the parks array captured by the onParkDeleted callback of a card's click
    gone,          \* identifiers whose DELETE the remote collection has answered with success
    done,          \* identifiers whose delete handler ran to its end after a success
    \* useDeletePark
    hpc, hIsDeleting, deleteError, hswal,
    \* ParkDetail
    park, detailLoading, dpc, dswal,
    share,         \* where handleShare of ParkDetail stands
    \* the <img> of a record in the card and in the detail page
    imgPark,       \* the image fields of the record both views render
    imageError, imageLoaded,
    imgSrc,        \* the src each view renders
    loadTimer,     \* the setTimeout of the card's onError is pending
    \* ParkList
    searchTerm, filterCity, sortBy,
    shown,         \* filteredAndSortedParks as rendered
    \* DeleteConfirmationModal
    modal,         \* its props, the focused button, and what the last input invoked
    \* requests issued and retry confirmations given for the current user action
    fcnt, ccnt

formVars == <<formData, originalData, errors, timers, isSubmitting, editLoading, routeId, fpc, fswal, edits>>
listVars == <<parks, homeLoading, listSwal, cpc, isDeleting, cswal, cbParks, gone, done>>
hookVars == <<hpc, hIsDeleting, deleteError, hswal>>
viewVars == <<imgPark, imageError, imageLoaded, imgSrc, loadTimer, searchTerm, filterCity, sortBy, shown, modal>>
detailVars == <<park, detailLoading, dpc, dswal, share, viewVars>>
cntVars == <<fcnt, ccnt>>
vars == <<page, online, net, formVars, listVars, hookVars, detailVars, cntVars>>

\* a Swal popup: what it says, whether it carries the "Reintentar" button,
\* and the error of the catch block that fired it (NoFailure elsewhere)
NoFailure == [status |-> NoResponse, code |-> "", message |-> FALSE]
Popup(title, text, count, retry) ==
    [title |-> title, text |-> text, count |-> count, retry |-> retry, cause |-> NoFailure]
NoSwal == Popup("", "", 0, FALSE)
ErrorPopup(title, text, error) == [Popup(title, text, 0, TRUE) EXCEPT !.cause = error]

EmptyObject == [key \in {} |-> Undefined]
NoPark == [id |-> 0]

Counter == [reqs |-> 0, retries |-> 0]
FlowNames == {"submit", "load", "list", "detail", "hook"}
Ended(cnt, flow) == [cnt EXCEPT ![flow] = Counter]
Issued(c) == [c EXCEPT !.reqs = @ + 1]
Retried(c) == [c EXCEPT !.retries = @ + 1]

\* a request as handed to axios
Request(src, method, id, data) == [src |-> src, method |-> method, id |-> id, data |-> data]
NoData == <<>>
\* the requests in flight are kept in one order, whatever the order they
\* were issued in: those of fetchParks first, then by record identifier
Before(a, b) == (a.src = "list" /\ b.src # "list") \/ (a.src = b.src /\ a.id < b.id)
Send(netNow, req) ==
    LET k == Cardinality({i \in DOMAIN netNow : ~Before(req, netNow[i])})
    IN  SubSeq(netNow, 1, k) \o <<req>> \o SubSeq(netNow, k + 1, Len(netNow))
RemoveAt(seq, i) == SubSeq(seq, 1, i - 1) \o SubSeq(seq, i + 1, Len(seq))
MutatingMethods == {"POST", "PUT", "DELETE"}

\* res.data.data || res.data
Unwrap(body) == body.payload
Bodies(payloads) == {[envelope |-> e, payload |-> pl] : e \in BOOLEAN, pl \in payloads}

\* ascending sequence of the elements of a set of identifiers
RECURSIVE Ascending(_)
Ascending(ids) ==
    IF ids = {} THEN <<>>
    ELSE LET m == CHOOSE x \in ids : \A y \in ids : x <= y IN <<m>> \o Ascending(ids \ {m})

\* state of the components that are not mounted
FormUnmounted ==
    /\ formData' = InitialFormData /\ originalData' = EmptyObject /\ errors' = EmptyObject
    /\ timers' = <<>> /\ isSubmitting' = FALSE /\ editLoading' = FALSE
    /\ fpc' = "none" /\ fswal' = NoSwal /\ edits' = 0
CardsUnmounted ==
    /\ cpc' = [id \in ParkIds |-> "idle"] /\ isDeleting' = [id \in ParkIds |-> FALSE]
    /\ cswal' = [id \in ParkIds |-> NoSwal] /\ cbParks' = [id \in ParkIds |-> <<>>]
    /\ done' = {}
ListUnmounted ==
    /\ parks' = <<>> /\ homeLoading' = FALSE /\ listSwal' = NoSwal /\ CardsUnmounted
HookUnmounted ==
    /\ hpc' = "none" /\ hIsDeleting' = FALSE /\ deleteError' = Null /\ hswal' = NoSwal
DetailUnmounted ==
    /\ park' = NoPark /\ detailLoading' = FALSE /\ dpc' = "none" /\ dswal' = NoSwal
    /\ share' = "none" /\ UNCHANGED viewVars

(***************************************************************************)
(* Swal shows one popup at a time: a popup that is fired closes the one    *)
(* that is open.  A closed dialog that a handler awaits ends that handler  *)
(* pass as a dismissal does; a closed loading popup leaves its request in  *)
(* flight with the page behind it within reach again.                      *)
(***************************************************************************)
\* the handler of the card of j awaits the answer to a dialog
DialogOpen(j) == cpc[j] \in {"alert", "confirm", "error"}

\* the cards once a popup is fired by owner (0: by fetchParks); resolves
\* tells whether the await of a closed dialog returns (it returns a
\* dismissal) or stays pending, which leaves the finally block unreached
ClosedPc(owner) == [j \in ParkIds |-> IF j # owner /\ DialogOpen(j) THEN "idle" ELSE cpc[j]]
ClosedSwal(owner) == [j \in ParkIds |-> IF j # owner /\ cpc[j] # "toast" THEN NoSwal ELSE cswal[j]]
ClosedClosure(owner) == [j \in ParkIds |-> IF j # owner /\ DialogOpen(j) THEN <<>> ELSE cbParks[j]]
ClosedCount(owner) == [j \in ParkIds |-> IF j # owner /\ DialogOpen(j) THEN Counter ELSE ccnt[j]]
AwaitOutcomes == IF \E j \in ParkIds : cpc[j] = "error" THEN BOOLEAN ELSE {TRUE}
ClosedFlags(owner, resolves) ==
    [j \in ParkIds |-> IF j # owner /\ cpc[j] = "error" /\ resolves THEN FALSE ELSE isDeleting[j]]

(***************************************************************************)
(* Home: fetchParks and the two mount effects.                             *)
(***************************************************************************)
ListRequest == Request("list", "GET", 0, NoData)

\* fetchParks up to its first await, called n times in a row: the
\* connectivity check, setLoading(true) and the GET handed to axios
FetchParksStart(n, netBase, cntBase, swalBase) ==
    IF ~online
    THEN /\ listSwal' = Popup("Sin conexion a internet", "Verifica tu conexion y vuelve a intentar", 0, FALSE)
         /\ homeLoading' = FALSE
         /\ net' = netBase
         /\ fcnt' = cntBase
    ELSE /\ listSwal' = swalBase
         /\ homeLoading' = TRUE
         /\ net' = [i \in 1..n |-> ListRequest] \o netBase
         /\ fcnt' = [cntBase EXCEPT !["list"].reqs = @ + n]

\* effects of Home that call fetchParks when it mounts: the one keyed on
\* fetchParks and the one keyed on location, whose pathname is '/' here
MountEffects == 2

\* Home is mounted: useState initial values, then the effects
EnterHome(netBase) ==
    /\ page' = "home" /\ routeId' = 0
    /\ FormUnmounted /\ HookUnmounted /\ DetailUnmounted /\ CardsUnmounted
    /\ parks' = <<>>
    /\ gone' = gone
    /\ ccnt' = [id \in ParkIds |-> Counter]
    /\ FetchParksStart(MountEffects, netBase, [f \in FlowNames |-> Counter], NoSwal)

\* the body GET /parks answers with: the records the collection still holds
ListPayloads == {Ascending(ParkIds \ gone)}

\* the list flow is at rest: no GET /parks in flight, no retry dialog open
ListAtRest(netNow, swalNow) == (\A j \in DOMAIN netNow : netNow[j].src # "list") /\ ~swalNow.retry

\* the text of the error dialog (line 88)
ListErrorText(error) == IF error.message THEN "data.message" ELSE "No se pudieron cargar los parques"

\* a GET /parks call ends (lines 51-105); the success toast is transient
\* and takes the place of whatever popup was shown, as the error dialog does
ListResponse(i, resolves) ==
    /\ page = "home"
    /\ i \in DOMAIN net /\ net[i].src = "list"
    /\ net' = RemoveAt(net, i)
    /\ homeLoading' = FALSE
    /\ \/ \E fetched \in {Unwrap(body) : body \in Bodies(ListPayloads)} :
            /\ parks' = fetched
            /\ listSwal' = IF Len(fetched) > 0 THEN NoSwal ELSE listSwal
       \/ \E text \in {ListErrorText(error) : error \in Failures} :
            /\ parks' = <<>>
            /\ listSwal' = Popup("Error al cargar parques", text, 0, TRUE)
    /\ IF Len(parks') > 0 \/ listSwal'.retry
       THEN /\ cpc' = ClosedPc(0) /\ cswal' = ClosedSwal(0) /\ cbParks' = ClosedClosure(0)
            /\ ccnt' = ClosedCount(0) /\ isDeleting' = ClosedFlags(0, resolves)
       ELSE UNCHANGED <<cpc, cswal, cbParks, ccnt, isDeleting>>
    /\ fcnt' = IF ListAtRest(net', listSwal') THEN [fcnt EXCEPT !["list"] = Counter] ELSE fcnt
    /\ UNCHANGED <<page, online, formVars, gone, done, hookVars, detailVars>>

\* the user answers the error dialog of fetchParks (lines 95-99)
ListRetry(confirmed) ==
    /\ page = "home" /\ listSwal.retry
    /\ IF confirmed
       THEN /\ fcnt["list"].retries < MaxRetries
            /\ FetchParksStart(1, net, [fcnt EXCEPT !["list"] = Retried(@)], NoSwal)
       ELSE /\ listSwal' = NoSwal
            /\ fcnt' = IF ListAtRest(net, NoSwal) THEN [fcnt EXCEPT !["list"] = Counter] ELSE fcnt
            /\ UNCHANGED <<homeLoading, net>>
    /\ UNCHANGED <<page, online, formVars, parks, cpc, isDeleting, cswal, cbParks, gone, done, hookVars, detailVars, ccnt>>

\* popups of the list that stop the user from reaching the page behind them
ListSwalModal == listSwal.title \in {"Sin conexion a internet", "Error al cargar parques", "Actualizando..."}

\* a popup without a question closes: its button is pressed or its timer ends
ListSwalClose ==
    /\ page = "home" /\ listSwal # NoSwal /\ ~listSwal.retry
    /\ listSwal' = NoSwal
    /\ UNCHANGED <<page, online, net, formVars, parks, homeLoading, cpc, isDeleting, cswal, cbParks, gone, done, hookVars, detailVars, cntVars>>

\* some card's handler holds a modal popup open: a dialog, or the loading
\* popup of lines 75-82 (allowOutsideClick: false, allowEscapeKey: false)
CardModal == \E id \in ParkIds : cpc[id] # "toast" /\ cswal[id] # NoSwal

\* the page behind the popups cannot be clicked
ListBlocked == ListSwalModal \/ CardModal

\* the refresh button of the header (lines 201-212) and the one of the
\* empty state (line 314); Home renders neither while loading
HomeRefresh(withNotice) ==
    /\ page = "home" /\ ~homeLoading /\ ~ListBlocked
    /\ withNotice \/ Len(parks) = 0
    /\ FetchParksStart(1, net, [fcnt EXCEPT !["list"] = Counter],
                       IF withNotice THEN Popup("Actualizando...", "Obteniendo los datos mas recientes", 0, FALSE) ELSE listSwal)
    /\ UNCHANGED <<page, online, formVars, parks, cpc, isDeleting, cswal, cbParks, gone, done, hookVars, detailVars, ccnt>>

(***************************************************************************)
(* ParkForm: the create form.                                              *)
(***************************************************************************)
\* handleChange of both forms: the draft takes the value and a validation
\* of that value is scheduled 300 ms later
handleChange(name, value) ==
    /\ page \in {"create", "edit"} /\ fpc = "editing"
    /\ edits < MaxEdits /\ Len(timers) < MaxTimers
    /\ formData' = [formData EXCEPT ![name] = value]
    /\ timers' = Append(timers, [name |-> name, value |-> value])
    /\ edits' = edits + 1
    /\ UNCHANGED <<page, online, net, originalData, errors, isSubmitting, editLoading, routeId, fpc, fswal, listVars, hookVars, detailVars, cntVars>>

\* the scheduled validations run newest first
TimerFiresNewestFirst ==
    /\ page \in {"create", "edit"} /\ timers # <<>>
    /\ errors' = validate(errors, timers[Len(timers)].name, timers[Len(timers)].value)
    /\ timers' = SubSeq(timers, 1, Len(timers) - 1)
    /\ UNCHANGED <<page, online, net, formData, originalData, isSubmitting, editLoading, routeId, fpc, fswal, edits, listVars, hookVars, detailVars, cntVars>>

\* a scheduled validation runs: validate(name, value) of the captured value
TimerFires ==
    /\ page \in {"create", "edit"} /\ timers # <<>>
    /\ errors' = validate(errors, Head(timers).name, Head(timers).value)
    /\ timers' = Tail(timers)
    /\ UNCHANGED <<page, online, net, formData, originalData, isSubmitting, editLoading, routeId, fpc, fswal, edits, listVars, hookVars, detailVars, cntVars>>

\* the object of lines 198-208 with toUpperCase() of line 201 left out
dataToSendAsTyped(fd) ==
    [fd EXCEPT !.park_name = trim(fd.park_name),
               !.park_abbreviation = trim(fd.park_abbreviation),
               !.park_img_url = trim(fd.park_img_url),
               !.park_address = trim(fd.park_address),
               !.park_state = trim(fd.park_state),
               !.park_zip_code = parseInt(fd.park_zip_code),
               !.park_latitude = parseFloat(fd.park_latitude),
               !.park_longitude = parseFloat(fd.park_longitude)]

\* the object handed to api.post (lines 198-208)
dataToSend(fd) ==
    [fd EXCEPT !.park_name = trim(fd.park_name),
               !.park_abbreviation = toUpperCase(trim(fd.park_abbreviation)),
               !.park_img_url = trim(fd.park_img_url),
               !.park_address = trim(fd.park_address),
               !.park_state = trim(fd.park_state),
               !.park_zip_code = parseInt(fd.park_zip_code),
               !.park_latitude = parseFloat(fd.park_latitude),
               !.park_longitude = parseFloat(fd.park_longitude)]

\* the message of the catch block (lines 231-236)
CreateMessage(error) ==
    IF error.status = 422 THEN "Datos invalidos"
    ELSE IF error.status = 409 THEN "Parque duplicado"
    ELSE IF error.status = 500 THEN "Error del servidor"
    ELSE IF error.code = "ECONNABORTED" THEN "Tiempo agotado"
    ELSE "Error desconocido"

\* the submit button is rendered with disabled={isSubmitting}
CreateSubmitEnabled == ~isSubmitting

\* handleSubmit with the validateAll guard of lines 175-178 left out
CreateSubmitStartUnvalidated ==
    IF ~online
    THEN /\ fpc' = "alert"
         /\ fswal' = Popup("Sin conexion", "Verifica tu conexion a internet", 0, FALSE)
         /\ errors' = errors
    ELSE /\ fpc' = "confirm"
         /\ fswal' = Popup("Crear parque?", "Nombre y ciudad", 0, FALSE)
         /\ errors' = newErrors(formData)

\* handleSubmit up to its first await (lines 168-184): the connectivity
\* check, validateAll, and the confirmation question
CreateSubmitStart ==
    IF ~online
    THEN /\ fpc' = "alert"
         /\ fswal' = Popup("Sin conexion", "Verifica tu conexion a internet", 0, FALSE)
         /\ errors' = errors
    ELSE IF ~validateAll(formData)
    THEN /\ fpc' = "alert"
         /\ fswal' = Popup("Formulario incompleto", "Corrige campo(s) con errores", Cardinality(DOMAIN errors), FALSE)
         /\ errors' = newErrors(formData)
    ELSE /\ fpc' = "confirm"
         /\ fswal' = Popup("Crear parque?", "Nombre y ciudad", 0, FALSE)
         /\ errors' = newErrors(formData)

\* the submit event of the form (onSubmit={handleSubmit}, line 282): from
\* the submit button, which must be enabled, or dispatched on the form
CreateHandleSubmit(viaButton) ==
    /\ page = "create" /\ fpc = "editing"
    /\ viaButton => CreateSubmitEnabled
    /\ CreateSubmitStart
    /\ fcnt' = [fcnt EXCEPT !["submit"] = Counter]
    /\ UNCHANGED <<page, online, net, formData, originalData, timers, isSubmitting, editLoading, routeId, edits, listVars, hookVars, detailVars, ccnt>>

\* an alert that asks nothing is closed (both forms)
FormAlertOk ==
    /\ page \in {"create", "edit"} /\ fpc = "alert"
    /\ fpc' = "editing" /\ fswal' = NoSwal
    /\ fcnt' = Ended(fcnt, "submit")
    /\ UNCHANGED <<page, online, net, formData, originalData, errors, timers, isSubmitting, editLoading, routeId, edits, listVars, hookVars, detailVars, ccnt>>

\* the user answers "Crear parque?" (lines 186-213)
CreateConfirm(confirmed) ==
    /\ page = "create" /\ fpc = "confirm"
    /\ IF confirmed
       THEN /\ isSubmitting' = TRUE
            /\ fpc' = "inflight"
            /\ fswal' = Popup("Creando parque...", "", 0, FALSE)
            /\ net' = Send(net, Request("create", "POST", 0, dataToSend(formData)))
            /\ fcnt' = [fcnt EXCEPT !["submit"] = Issued(@)]
       ELSE /\ fpc' = "editing" /\ fswal' = NoSwal
            /\ fcnt' = Ended(fcnt, "submit")
            /\ UNCHANGED <<isSubmitting, net>>
    /\ UNCHANGED <<page, online, formData, originalData, errors, timers, editLoading, routeId, edits, listVars, hookVars, detailVars, ccnt>>

\* the POST ends (lines 210-242)
CreateResponse(i) ==
    /\ page = "create" /\ fpc = "inflight"
    /\ i \in DOMAIN net /\ net[i].src = "create"
    /\ net' = RemoveAt(net, i)
    /\ \/ \E status \in SuccessStatuses :
            /\ fpc' = "success"
            /\ fswal' = Popup("Exito!", "creado correctamente", 0, FALSE)
       \/ \E error \in Failures :
            /\ fpc' = "error"
            /\ fswal' = ErrorPopup("Error", CreateMessage(error), error)
    /\ UNCHANGED <<page, online, formData, originalData, errors, timers, isSubmitting, editLoading, routeId, edits, listVars, hookVars, detailVars, cntVars>>

\* the success alert ends: the form is reset and the list view is opened
\* with the refresh signal (lines 220-228)
CreateSuccessDone ==
    /\ page = "create" /\ fpc = "success"
    /\ EnterHome(net)
    /\ UNCHANGED <<online>>

\* the user answers the error dialog (lines 238-248): retry runs
\* handleSubmit again up to its first await, then finally clears the flag
\* the retry dialog of the create form whose "Reintentar" sends the POST
\* again at once, without the question of lines 180-184
CreateRetryResending(confirmed) ==
    /\ page = "create" /\ fpc = "error"
    /\ IF confirmed
       THEN /\ fcnt["submit"].retries < MaxRetries
            /\ fpc' = "inflight"
            /\ fswal' = Popup("Creando parque...", "", 0, FALSE)
            /\ net' = Send(net, Request("create", "POST", 0, dataToSend(formData)))
            /\ fcnt' = [fcnt EXCEPT !["submit"] = Issued(Retried(@))]
            /\ isSubmitting' = TRUE
       ELSE /\ fpc' = "editing" /\ fswal' = NoSwal
            /\ fcnt' = Ended(fcnt, "submit")
            /\ isSubmitting' = FALSE
            /\ UNCHANGED net
    /\ UNCHANGED <<page, online, errors, formData, originalData, timers, editLoading, routeId, edits, listVars, hookVars, detailVars, ccnt>>

CreateRetry(confirmed) ==
    /\ page = "create" /\ fpc = "error"
    /\ IF confirmed
       THEN /\ fcnt["submit"].retries < MaxRetries
            /\ CreateSubmitStart
            /\ fcnt' = [fcnt EXCEPT !["submit"] = Retried(@)]
       ELSE /\ fpc' = "editing" /\ fswal' = NoSwal
            /\ fcnt' = Ended(fcnt, "submit")
            /\ UNCHANGED errors
    /\ isSubmitting' = FALSE
    /\ UNCHANGED <<page, online, net, formData, originalData, timers, editLoading, routeId, edits, listVars, hookVars, detailVars, ccnt>>

(***************************************************************************)
(* ParkEditForm: the edit form.                                            *)
(***************************************************************************)
\* JSON.stringify of a flat object: its keys in insertion order with their values
JSONstringify(obj) ==
    LET keys == SelectSeq(KeyOrder, LAMBDA k : k \in DOMAIN obj)
    IN  [i \in DOMAIN keys |-> <<keys[i], obj[keys[i]]>>]

\* hasChanges comparing the first key of the two objects only
hasChangesFirstKeyOnly(fd, od) == fd.park_name # od.park_name

\* hasChanges (lines 258-260)
hasChanges(fd, od) == JSONstringify(fd) # JSONstringify(od)

\* the draft and the snapshot built from the fetched record (lines 185-195)
parkData(p) ==
    [park_name |-> p.park_name, park_abbreviation |-> p.park_abbreviation, park_img_url |-> p.park_img_url,
     park_address |-> p.park_address, park_city |-> p.park_city,
     park_state |-> IF p.park_state = <<>> THEN Str_Jalisco ELSE p.park_state,
     park_zip_code |-> IntToString(p.park_zip_code),
     park_latitude |-> p.park_latitude, park_longitude |-> p.park_longitude]

\* the catch block of fetchPark with the 404 branch of lines 217-219 left out
LoadTitleWithout404(error) ==
    IF error.status = 500 THEN "Error del servidor"
    ELSE IF error.code = "ECONNABORTED" THEN "Tiempo agotado"
    ELSE "Error de carga"

\* title of the catch block of fetchPark (lines 214-226)
LoadTitle(error) ==
    IF error.status = 404 THEN "Parque no encontrado"
    ELSE IF error.status = 500 THEN "Error del servidor"
    ELSE IF error.code = "ECONNABORTED" THEN "Tiempo agotado"
    ELSE "Error de carga"

\* the error thrown for a payload without a name (line 182): no response, no code
IncompleteData == [status |-> NoResponse, code |-> "", message |-> FALSE]

\* the edit route is opened: useState initial values, then the effect that
\* runs fetchPark (lines 163-177); offline it leaves for the list at once
EnterEdit(id, netBase, cntBase) ==
    IF ~online
    THEN /\ EnterHome(netBase)
    ELSE /\ page' = "edit"
         /\ formData' = InitialFormData /\ originalData' = EmptyObject /\ errors' = EmptyObject
         /\ timers' = <<>> /\ isSubmitting' = FALSE /\ editLoading' = TRUE /\ routeId' = id
         /\ fpc' = "loading" /\ fswal' = NoSwal /\ edits' = 0
         /\ ListUnmounted /\ HookUnmounted /\ DetailUnmounted
         /\ gone' = gone
         /\ net' = Send(netBase, Request("load", "GET", id, NoData))
         /\ fcnt' = [cntBase EXCEPT !["load"] = Issued(@)]
         /\ ccnt' = [i \in ParkIds |-> Counter]

\* GET /parks/{id} of the edit form ends (lines 179-232)
EditLoadResponse(i) ==
    /\ page = "edit" /\ fpc = "loading"
    /\ i \in DOMAIN net /\ net[i].src = "load"
    /\ net' = RemoveAt(net, i)
    /\ \/ \E body \in Bodies(RemoteParks(routeId)) :
            IF Unwrap(body).park_name = <<>>
            THEN /\ fpc' = "loadError"
                 /\ fswal' = Popup(LoadTitle(IncompleteData), "No se pudo cargar el parque", 0, TRUE)
                 /\ UNCHANGED <<formData, originalData, editLoading, fcnt>>
            ELSE /\ formData' = parkData(Unwrap(body))
                 /\ originalData' = parkData(Unwrap(body))
                 /\ editLoading' = FALSE
                 /\ fpc' = "editing"
                 /\ fswal' = NoSwal
                 /\ fcnt' = Ended(fcnt, "load")
       \/ \E error \in Failures :
            /\ fpc' = "loadError"
            /\ fswal' = ErrorPopup(LoadTitle(error), "", error)
            /\ UNCHANGED <<formData, originalData, editLoading, fcnt>>
    /\ UNCHANGED <<page, online, errors, timers, isSubmitting, routeId, edits, listVars, hookVars, detailVars, ccnt>>

\* the user answers the load error dialog (lines 234-241): "Reintentar"
\* reloads the page, "Volver al inicio" opens the list
EditLoadRetry(confirmed) ==
    /\ page = "edit" /\ fpc = "loadError"
    /\ IF confirmed
       THEN /\ fcnt["load"].retries < MaxRetries
            /\ EnterEdit(routeId, net, [fcnt EXCEPT !["load"] = Retried(@)])
       ELSE EnterHome(net)
    /\ UNCHANGED <<online>>

\* the submit button is rendered with disabled={isSubmitting || !hasChanges()}
EditSubmitEnabled == ~isSubmitting /\ hasChanges(formData, originalData)

\* handleSubmit with the hasChanges guard of lines 274-276 left out
EditSubmitOutcomeNoChangeCheck(onlineNow, fd, od) ==
    IF ~onlineNow THEN "offline"
    ELSE IF ~validateAll(fd) THEN "invalid"
    ELSE "confirm"

\* the way handleSubmit leaves its synchronous checks (lines 265-276)
EditSubmitOutcome(onlineNow, fd, od) ==
    IF ~onlineNow THEN "offline"
    ELSE IF ~validateAll(fd) THEN "invalid"
    ELSE IF ~hasChanges(fd, od) THEN "nochanges"
    ELSE "confirm"

\* number of lines of the change summary (lines 279-284)
Changes(fd, od) == {key \in DOMAIN fd : key \notin DOMAIN od \/ fd[key] # od[key]}

\* handleSubmit up to its first await (lines 262-304)
EditSubmitStart ==
    LET outcome == EditSubmitOutcome(online, formData, originalData)
    IN  /\ fpc' = IF outcome = "confirm" THEN "confirm" ELSE "alert"
        /\ fswal' = CASE outcome = "offline" -> Popup("Sin conexion", "Verifica tu conexion a internet", 0, FALSE)
                      [] outcome = "invalid" -> Popup("Formulario incompleto", "Corrige campo(s) con errores", Cardinality(DOMAIN errors), FALSE)
                      [] outcome = "nochanges" -> Popup("Sin cambios", "No se detectaron modificaciones en el parque", 0, FALSE)
                      [] OTHER -> Popup("Actualizar parque?", "Cambios detectados", Cardinality(Changes(formData, originalData)), FALSE)
        /\ errors' = IF outcome = "offline" THEN errors ELSE newErrors(formData)

\* the submit event of the form (onSubmit={handleSubmit}, line 454): from
\* the submit button, which must be enabled, or dispatched on the form
EditHandleSubmit(viaButton) ==
    /\ page = "edit" /\ fpc = "editing"
    /\ viaButton => EditSubmitEnabled
    /\ EditSubmitStart
    /\ fcnt' = [fcnt EXCEPT !["submit"] = Counter]
    /\ UNCHANGED <<page, online, net, formData, originalData, timers, isSubmitting, editLoading, routeId, edits, listVars, hookVars, detailVars, ccnt>>

\* the object of lines 319-329 with the identifier of the route added
dataToUpdateWithId(fd) ==
    [id |-> routeId,
     park_name |-> trim(fd.park_name),
     park_abbreviation |-> toUpperCase(trim(fd.park_abbreviation)),
     park_img_url |-> trim(fd.park_img_url),
     park_address |-> trim(fd.park_address),
     park_city |-> fd.park_city,
     park_state |-> trim(fd.park_state),
     park_zip_code |-> parseInt(fd.park_zip_code),
     park_latitude |-> parseFloat(fd.park_latitude),
     park_longitude |-> parseFloat(fd.park_longitude)]

\* the object handed to api.put (lines 319-329)
dataToUpdate(fd) ==
    [park_name |-> trim(fd.park_name),
     park_abbreviation |-> toUpperCase(trim(fd.park_abbreviation)),
     park_img_url |-> trim(fd.park_img_url),
     park_address |-> trim(fd.park_address),
     park_city |-> fd.park_city,
     park_state |-> trim(fd.park_state),
     park_zip_code |-> parseInt(fd.park_zip_code),
     park_latitude |-> parseFloat(fd.park_latitude),
     park_longitude |-> parseFloat(fd.park_longitude)]

\* the user answers "Actualizar parque?" (lines 306-336)
EditConfirm(confirmed) ==
    /\ page = "edit" /\ fpc = "confirm"
    /\ IF confirmed
       THEN /\ isSubmitting' = TRUE
            /\ fpc' = "inflight"
            /\ fswal' = Popup("Actualizando parque...", "", 0, FALSE)
            /\ net' = Send(net, Request("edit", "PUT", routeId, dataToUpdate(formData)))
            /\ fcnt' = [fcnt EXCEPT !["submit"] = Issued(@)]
       ELSE /\ fpc' = "editing" /\ fswal' = NoSwal
            /\ fcnt' = Ended(fcnt, "submit")
            /\ UNCHANGED <<isSubmitting, net>>
    /\ UNCHANGED <<page, online, formData, originalData, errors, timers, editLoading, routeId, edits, listVars, hookVars, detailVars, ccnt>>

\* title of the catch block of handleSubmit (lines 352-370)
EditTitle(error) ==
    IF error.status = 422 THEN "Datos invalidos"
    ELSE IF error.status = 404 THEN "Parque no encontrado"
    ELSE IF error.status = 409 THEN "Conflicto de datos"
    ELSE IF error.status = 500 THEN "Error del servidor"
    ELSE IF error.code = "ECONNABORTED" THEN "Tiempo agotado"
    ELSE "Error de actualizacion"

\* the PUT ends (lines 333-376); a success status other than 200 and 201
\* skips the alert and the navigation, and finally clears the flag
EditResponse(i) ==
    /\ page = "edit" /\ fpc = "inflight"
    /\ i \in DOMAIN net /\ net[i].src = "edit"
    /\ net' = RemoveAt(net, i)
    /\ \/ \E status \in SuccessStatuses :
            IF status \in {200, 201}
            THEN /\ fpc' = "success"
                 /\ fswal' = Popup("Parque actualizado!", "se actualizo correctamente", 0, FALSE)
                 /\ UNCHANGED isSubmitting
            ELSE /\ fpc' = "leftover"
                 /\ UNCHANGED fswal
                 /\ isSubmitting' = FALSE
       \/ \E error \in Failures :
            /\ fpc' = "error"
            /\ fswal' = ErrorPopup(EditTitle(error), "", error)
            /\ UNCHANGED isSubmitting
    /\ fcnt' = IF fpc' = "leftover" THEN Ended(fcnt, "submit") ELSE fcnt
    /\ UNCHANGED <<page, online, formData, originalData, errors, timers, editLoading, routeId, edits, listVars, hookVars, detailVars, ccnt>>

\* the success alert ends: the list view is opened with the refresh signal
EditSuccessDone ==
    /\ page = "edit" /\ fpc = "success"
    /\ EnterHome(net)
    /\ UNCHANGED <<online>>

\* the user answers the error dialog (lines 372-383)
\* the retry dialog of the edit form whose cancel answer puts the fetched
\* record back into the draft
EditRetryRestoring(confirmed) ==
    /\ page = "edit" /\ fpc = "error"
    /\ IF confirmed
       THEN /\ fcnt["submit"].retries < MaxRetries
            /\ EditSubmitStart
            /\ fcnt' = [fcnt EXCEPT !["submit"] = Retried(@)]
            /\ UNCHANGED formData
       ELSE /\ fpc' = "editing" /\ fswal' = NoSwal
            /\ fcnt' = Ended(fcnt, "submit")
            /\ formData' = originalData
            /\ UNCHANGED errors
    /\ isSubmitting' = FALSE
    /\ UNCHANGED <<page, online, net, originalData, timers, editLoading, routeId, edits, listVars, hookVars, detailVars, ccnt>>

EditRetry(confirmed) ==
    /\ page = "edit" /\ fpc = "error"
    /\ IF confirmed
       THEN /\ fcnt["submit"].retries < MaxRetries
            /\ EditSubmitStart
            /\ fcnt' = [fcnt EXCEPT !["submit"] = Retried(@)]
       ELSE /\ fpc' = "editing" /\ fswal' = NoSwal
            /\ fcnt' = Ended(fcnt, "submit")
            /\ UNCHANGED errors
    /\ isSubmitting' = FALSE
    /\ UNCHANGED <<page, online, net, formData, originalData, timers, editLoading, routeId, edits, listVars, hookVars, detailVars, ccnt>>

(***************************************************************************)
(* ParkCard: the delete flow of a record card, in Home and in ParkList.    *)
(***************************************************************************)
\* the component that owns the parks array handed to ParkList: it shows the
\* whole collection and stores what onParksUpdate hands back
EnterList ==
    /\ page' = "list" /\ routeId' = 0
    /\ FormUnmounted /\ HookUnmounted /\ DetailUnmounted /\ CardsUnmounted
    /\ parks' = Ascending(ParkIds \ gone)
    /\ homeLoading' = FALSE /\ listSwal' = NoSwal
    /\ fcnt' = [f \in FlowNames |-> Counter]
    /\ ccnt' = [id \in ParkIds |-> Counter]
    /\ UNCHANGED <<online, net, gone>>

onParksUpdate(updatedParks) == updatedParks

\* handleParkDeleted of ParkList (lines 51-56), over the parks of its closure
handleParkDeleted(closureParks, deletedParkId) ==
    onParksUpdate(SelectSeq(closureParks, LAMBDA id : id # deletedParkId))

\* what the card's onParkDeleted prop does to the collection of its view:
\* ParkList passes handleParkDeleted, Home passes no callback (line 140)
onParkDeleted(view, closureParks, current, deletedParkId) ==
    IF view = "list" THEN handleParkDeleted(closureParks, deletedParkId) ELSE current

\* the card of id is rendered: Home renders cards once loading is over
CardRendered(id) ==
    /\ page \in {"home", "list"}
    /\ \E i \in DOMAIN parks : parks[i] = id
    /\ page = "home" => ~homeLoading

\* the delete button is rendered with disabled={isDeleting}
CardDeleteEnabled(id) == ~isDeleting[id]

\* errorConfig of the catch block (lines 114-141)
CardErrorConfig(error, onlineNow) ==
    IF error.status = 404 THEN [title |-> "Parque no encontrado", text |-> "El parque ya no existe o fue eliminado previamente"]
    ELSE IF error.status = 403 THEN [title |-> "Sin permisos", text |-> "No tienes permisos para eliminar este parque"]
    ELSE IF error.status = 401 THEN [title |-> "No autorizado", text |-> "Tus credenciales han expirado. Actualiza la pagina"]
    ELSE IF error.status = 500 THEN [title |-> "Error del servidor", text |-> "Hubo un problema en el servidor. Intenta mas tarde"]
    ELSE IF error.code = "ECONNABORTED" THEN [title |-> "Tiempo agotado", text |-> "La eliminacion tardo demasiado tiempo. Verifica tu conexion"]
    ELSE IF error.message THEN [title |-> "Error al eliminar", text |-> "data.message"]
    ELSE IF ~onlineNow THEN [title |-> "Sin conexion", text |-> "Se perdio la conexion a internet durante la eliminacion"]
    ELSE [title |-> "Error al eliminar", text |-> "No se pudo eliminar el parque"]

\* handleDeleteClick with the connectivity check of lines 37-44 left out
CardDeleteStartUnchecked(id) ==
    /\ cpc' = [cpc EXCEPT ![id] = "confirm"]
    /\ cswal' = [cswal EXCEPT ![id] = Popup("Eliminar parque?", "Esta accion no se puede deshacer", 0, FALSE)]

\* handleDeleteClick up to its first await (lines 35-68)
CardDeleteStart(id) ==
    IF ~online
    THEN /\ cpc' = [cpc EXCEPT ![id] = "alert"]
         /\ cswal' = [cswal EXCEPT ![id] = Popup("Sin conexion", "Verifica tu conexion a internet para eliminar el parque", 0, FALSE)]
    ELSE /\ cpc' = [cpc EXCEPT ![id] = "confirm"]
         /\ cswal' = [cswal EXCEPT ![id] = Popup("Eliminar parque?", "Esta accion no se puede deshacer", 0, FALSE)]

\* the user clicks the delete button of a card
handleDeleteClick(id) ==
    /\ CardRendered(id) /\ cpc[id] = "idle" /\ CardDeleteEnabled(id) /\ ~ListBlocked
    /\ CardDeleteStart(id)
    /\ cbParks' = [cbParks EXCEPT ![id] = IF page = "list" THEN parks ELSE <<>>]
    /\ ccnt' = [ccnt EXCEPT ![id] = Counter]
    /\ UNCHANGED <<page, online, net, formVars, parks, homeLoading, listSwal, isDeleting, gone, done, hookVars, detailVars, fcnt>>

\* the offline notice of a card is closed
CardAlertOk(id) ==
    /\ page \in {"home", "list"} /\ cpc[id] = "alert"
    /\ cpc' = [cpc EXCEPT ![id] = "idle"]
    /\ cswal' = [cswal EXCEPT ![id] = NoSwal]
    /\ cbParks' = [cbParks EXCEPT ![id] = <<>>]
    /\ ccnt' = [ccnt EXCEPT ![id] = Counter]
    /\ UNCHANGED <<page, online, net, formVars, parks, homeLoading, listSwal, isDeleting, gone, done, hookVars, detailVars, fcnt>>

\* the user answers "Eliminar parque?" (lines 70-92)
\* the answer to "Eliminar parque?" with the flag of a retry pass lost: as
\* if the finally block of the outer invocation ran after line 72
CardConfirmFlagLostOnRetry(id, confirmed) ==
    /\ page \in {"home", "list"} /\ cpc[id] = "confirm"
    /\ IF confirmed
       THEN /\ isDeleting' = [isDeleting EXCEPT ![id] = (ccnt[id].retries = 0)]
            /\ cpc' = [cpc EXCEPT ![id] = "inflight"]
            /\ cswal' = [cswal EXCEPT ![id] = Popup("Eliminando parque...", "", 0, FALSE)]
            /\ net' = Send(net, Request("card", "DELETE", id, NoData))
            /\ ccnt' = [ccnt EXCEPT ![id] = Issued(@)]
            /\ UNCHANGED cbParks
       ELSE /\ cpc' = [cpc EXCEPT ![id] = "idle"]
            /\ cswal' = [cswal EXCEPT ![id] = NoSwal]
            /\ cbParks' = [cbParks EXCEPT ![id] = <<>>]
            /\ ccnt' = [ccnt EXCEPT ![id] = Counter]
            /\ UNCHANGED <<isDeleting, net>>
    /\ UNCHANGED <<page, online, formVars, parks, homeLoading, listSwal, gone, done, hookVars, detailVars, fcnt>>

CardConfirm(id, confirmed) ==
    /\ page \in {"home", "list"} /\ cpc[id] = "confirm"
    /\ IF confirmed
       THEN /\ isDeleting' = [isDeleting EXCEPT ![id] = TRUE]
            /\ cpc' = [cpc EXCEPT ![id] = "inflight"]
            /\ cswal' = [cswal EXCEPT ![id] = Popup("Eliminando parque...", "", 0, FALSE)]
            /\ net' = Send(net, Request("card", "DELETE", id, NoData))
            /\ ccnt' = [ccnt EXCEPT ![id] = Issued(@)]
            /\ UNCHANGED cbParks
       ELSE /\ cpc' = [cpc EXCEPT ![id] = "idle"]
            /\ cswal' = [cswal EXCEPT ![id] = NoSwal]
            /\ cbParks' = [cbParks EXCEPT ![id] = <<>>]
            /\ ccnt' = [ccnt EXCEPT ![id] = Counter]
            /\ UNCHANGED <<isDeleting, net>>
    /\ UNCHANGED <<page, online, formVars, parks, homeLoading, listSwal, gone, done, hookVars, detailVars, fcnt>>

\* the DELETE of a card ends (lines 86-151); the remote collection answers
\* with success only for a record it still holds; the toast or the error
\* dialog that is fired closes the popup that is open
CardResponse(i, resolves) ==
    /\ page \in {"home", "list"}
    /\ i \in DOMAIN net /\ net[i].src = "card" /\ cpc[net[i].id] = "inflight"
    /\ net' = RemoveAt(net, i)
    /\ LET id == net[i].id
       IN  /\ \/ /\ SuccessStatuses # {}
                    /\ id \notin gone
                    /\ gone' = gone \cup {id}
                    /\ cpc' = [ClosedPc(id) EXCEPT ![id] = "toast"]
                    /\ cswal' = [ClosedSwal(id) EXCEPT ![id] = Popup("Parque eliminado exitosamente!", "toast", 0, FALSE)]
                    /\ ccnt' = [ClosedCount(id) EXCEPT ![id] = Counter]
              \/ \E error \in Failures :
                    /\ gone' = gone
                    /\ cpc' = [ClosedPc(id) EXCEPT ![id] = "error"]
                    /\ cswal' = [ClosedSwal(id) EXCEPT ![id] = ErrorPopup(CardErrorConfig(error, online).title, CardErrorConfig(error, online).text, error)]
                    /\ ccnt' = ClosedCount(id)
           /\ cbParks' = ClosedClosure(id)
           /\ isDeleting' = ClosedFlags(id, resolves)
    /\ listSwal' = NoSwal
    /\ fcnt' = IF ListAtRest(net', NoSwal) THEN [fcnt EXCEPT !["list"] = Counter] ELSE fcnt
    /\ UNCHANGED <<page, online, formVars, parks, homeLoading, done, hookVars, detailVars>>

\* the success toast ends (lines 106-109, 156-158): the parent is notified
\* and finally clears the flag
CardToastDone(id) ==
    /\ page \in {"home", "list"} /\ cpc[id] = "toast"
    /\ parks' = onParkDeleted(page, cbParks[id], parks, id)
    /\ isDeleting' = [isDeleting EXCEPT ![id] = FALSE]
    /\ cpc' = [cpc EXCEPT ![id] = "idle"]
    /\ cswal' = [cswal EXCEPT ![id] = NoSwal]
    /\ done' = done \cup {id}
    /\ cbParks' = [cbParks EXCEPT ![id] = <<>>]
    /\ ccnt' = [ccnt EXCEPT ![id] = Counter]
    /\ UNCHANGED <<page, online, net, formVars, homeLoading, listSwal, gone, hookVars, detailVars, fcnt>>

\* the user answers the error dialog (lines 144-158): retry runs
\* handleDeleteClick again up to its first await, then finally clears the flag
CardRetry(id, confirmed) ==
    /\ page \in {"home", "list"} /\ cpc[id] = "error"
    /\ IF confirmed
       THEN /\ ccnt[id].retries < MaxRetries
            /\ CardDeleteStart(id)
            /\ ccnt' = [ccnt EXCEPT ![id] = Retried(@)]
            /\ UNCHANGED cbParks
       ELSE /\ cpc' = [cpc EXCEPT ![id] = "idle"]
            /\ cswal' = [cswal EXCEPT ![id] = NoSwal]
            /\ cbParks' = [cbParks EXCEPT ![id] = <<>>]
            /\ ccnt' = [ccnt EXCEPT ![id] = Counter]
    /\ isDeleting' = [isDeleting EXCEPT ![id] = FALSE]
    /\ UNCHANGED <<page, online, net, formVars, parks, homeLoading, listSwal, gone, done, hookVars, detailVars, fcnt>>

(***************************************************************************)
(* useDeletePark.                                                          *)
(***************************************************************************)
\* a component that calls deletePark is mounted
EnterHook ==
    /\ page' = "hook" /\ routeId' = 0
    /\ FormUnmounted /\ ListUnmounted /\ DetailUnmounted
    /\ hpc' = "idle" /\ hIsDeleting' = FALSE /\ deleteError' = Null /\ hswal' = NoSwal
    /\ fcnt' = [f \in FlowNames |-> Counter]
    /\ ccnt' = [id \in ParkIds |-> Counter]
    /\ UNCHANGED <<online, net, gone>>

\* the caller disables its trigger with the isDeleting flag the hook returns
HookTriggerEnabled == ~hIsDeleting

\* deletePark(parkId, parkName) up to its first await (lines 10-23)
deletePark(parkId) ==
    /\ page = "hook" /\ hpc = "idle" /\ HookTriggerEnabled
    /\ hpc' = "confirm"
    /\ routeId' = parkId
    /\ hswal' = Popup("Eliminar parque?", "Esta accion no se puede deshacer", 0, FALSE)
    /\ fcnt' = [fcnt EXCEPT !["hook"] = Counter]
    /\ UNCHANGED <<page, online, net, formData, originalData, errors, timers, isSubmitting, editLoading, fpc, fswal, edits, listVars, hIsDeleting, deleteError, detailVars, ccnt>>

\* the user answers the confirmation of the hook (lines 25-37)
HookConfirm(confirmed) ==
    /\ page = "hook" /\ hpc = "confirm"
    /\ IF confirmed
       THEN /\ hIsDeleting' = TRUE
            /\ deleteError' = Null
            /\ hpc' = "inflight"
            /\ net' = Send(net, Request("hook", "DELETE", routeId, NoData))
            /\ fcnt' = [fcnt EXCEPT !["hook"] = Issued(@)]
       ELSE /\ hpc' = "idle"
            /\ UNCHANGED <<hIsDeleting, deleteError, net, fcnt>>
    /\ hswal' = NoSwal
    /\ UNCHANGED <<page, online, formVars, listVars, detailVars, ccnt>>

\* errorMessage of the catch block (lines 67-70)
HookErrorMessage(error) ==
    IF error.message THEN "data.message" ELSE "error.message"

\* the DELETE of the hook ends (lines 37-78)
HookResponse(i) ==
    /\ page = "hook" /\ hpc = "inflight"
    /\ i \in DOMAIN net /\ net[i].src = "hook"
    /\ net' = RemoveAt(net, i)
    /\ \/ \E status \in SuccessStatuses :
            /\ net[i].id \notin gone
            /\ gone' = gone \cup {net[i].id}
            /\ IF status \in {200, 204}
               THEN /\ hpc' = "success"
                    /\ hswal' = Popup("Eliminado!", "ha sido eliminado exitosamente", 0, FALSE)
               ELSE /\ hpc' = "error"
                    /\ hswal' = Popup("Error", "Status inesperado", 0, FALSE)
       \/ \E error \in Failures :
            /\ gone' = gone
            /\ hpc' = "error"
            /\ hswal' = Popup("Error", HookErrorMessage(error), 0, FALSE)
    /\ UNCHANGED <<page, online, formVars, parks, homeLoading, listSwal, cpc, isDeleting, cswal, cbParks, done, hIsDeleting, deleteError, detailVars, cntVars>>

\* the alert of the hook ends (lines 53-58, 80-84): a reload is scheduled
\* after a success, the error is stored after a failure; finally clears the flag
HookAlertDone ==
    /\ page = "hook" /\ hpc \in {"success", "error"}
    /\ hpc' = IF hpc = "success" THEN "reloading" ELSE "idle"
    /\ deleteError' = IF hpc = "success" THEN deleteError ELSE hswal.text
    /\ hIsDeleting' = FALSE
    /\ hswal' = NoSwal
    /\ UNCHANGED <<page, online, net, formVars, listVars, detailVars, cntVars>>

\* window.location.reload() of line 55
HookReload ==
    /\ page = "hook" /\ hpc = "reloading"
    /\ EnterHook

(***************************************************************************)
(* ParkDetail.                                                             *)
(***************************************************************************)
\* fetchPark of ParkDetail up to its first await (lines 27-44)
DetailFetchStart(id, netBase, cntBase) ==
    IF ~online
    THEN /\ dswal' = Popup("Sin conexion", "Verifica tu conexion a internet", 0, FALSE)
         /\ detailLoading' = FALSE
         /\ dpc' = "alert"
         /\ net' = netBase
         /\ fcnt' = cntBase
    ELSE /\ dswal' = NoSwal
         /\ detailLoading' = TRUE
         /\ dpc' = "loading"
         /\ net' = Send(netBase, Request("detail", "GET", id, NoData))
         /\ fcnt' = [cntBase EXCEPT !["detail"] = Issued(@)]

\* the detail route is opened: useState initial values, then the effect
EnterDetail(id) ==
    /\ page' = "detail" /\ routeId' = id
    /\ FormUnmounted /\ ListUnmounted /\ HookUnmounted
    /\ park' = NoPark /\ share' = "none"
    /\ DetailFetchStart(id, net, [f \in FlowNames |-> Counter])
    /\ UNCHANGED viewVars
    /\ ccnt' = [i \in ParkIds |-> Counter]
    /\ UNCHANGED <<online, gone>>

\* the popup of the catch block (lines 57-92)
DetailErrorPopup(error) ==
    IF error.status = 404 THEN Popup("Parque no encontrado", "No existe el parque", 0, FALSE)
    ELSE IF error.status = 500 THEN Popup("Error del servidor", "Problema en el servidor. Intenta mas tarde.", 0, TRUE)
    ELSE Popup("Error de conexion", "No se pudo conectar con el servidor", 0, TRUE)

\* GET /parks/{id} of the detail page ends (lines 46-95)
DetailResponse(i) ==
    /\ page = "detail" /\ dpc = "loading"
    /\ i \in DOMAIN net /\ net[i].src = "detail"
    /\ net' = RemoveAt(net, i)
    /\ detailLoading' = FALSE
    /\ \/ \E body \in Bodies(RemoteParks(routeId)) :
            IF Unwrap(body).park_name = <<>>
            THEN /\ dpc' = "error" /\ dswal' = DetailErrorPopup(IncompleteData) /\ UNCHANGED park
            ELSE /\ dpc' = "shown" /\ dswal' = NoSwal /\ park' = Unwrap(body)
       \/ \E error \in Failures :
            /\ dpc' = "error" /\ dswal' = DetailErrorPopup(error) /\ UNCHANGED park
    /\ UNCHANGED <<page, online, formVars, listVars, hookVars, share, viewVars, cntVars>>

\* the offline notice of the detail page is closed
DetailAlertOk ==
    /\ page = "detail" /\ dpc = "alert"
    /\ dpc' = "blank" /\ dswal' = NoSwal
    /\ UNCHANGED <<page, online, net, formVars, listVars, hookVars, park, detailLoading, share, viewVars, cntVars>>

\* the user answers the error popup (lines 65, 75-78, 88-91)
DetailRetry(confirmed) ==
    /\ page = "detail" /\ dpc = "error"
    /\ IF confirmed /\ dswal.retry
       THEN /\ fcnt["detail"].retries < MaxRetries
            /\ DetailFetchStart(routeId, net, [fcnt EXCEPT !["detail"] = Retried(@)])
            /\ UNCHANGED <<page, formVars, listVars, hookVars, park, share, viewVars, ccnt>>
       ELSE EnterHome(net)
    /\ UNCHANGED <<online>>

\* the share button of ParkDetail is clicked: handleShare up to its await
\* (lines 101-112); canShare tells whether navigator.share exists
handleShare(canShare) ==
    /\ page = "detail" /\ dpc = "shown" /\ dswal = NoSwal
    /\ share \in {"none", "logged"}
    /\ share' = IF canShare THEN "sharing" ELSE "copying"
    /\ UNCHANGED <<page, online, net, formVars, listVars, hookVars, park, detailLoading, dpc, dswal, viewVars, cntVars>>

\* navigator.share or navigator.clipboard.writeText settles (lines 110-124):
\* a copy that worked fires the toast, a rejection is caught and written to
\* the console only
ShareSettles(fulfilled) ==
    /\ page = "detail" /\ share \in {"sharing", "copying"}
    /\ share' = IF fulfilled THEN "none" ELSE "logged"
    /\ dswal' = IF fulfilled /\ share = "copying"
                THEN Popup("Copiado al portapapeles", "toast", 0, FALSE)
                ELSE dswal
    /\ UNCHANGED <<page, online, net, formVars, listVars, hookVars, park, detailLoading, dpc, viewVars, cntVars>>

\* the toast of handleShare ends (timer: 1500)
ShareToastDone ==
    /\ page = "detail" /\ dpc = "shown" /\ dswal # NoSwal
    /\ dswal' = NoSwal
    /\ UNCHANGED <<page, online, net, formVars, listVars, hookVars, park, detailLoading, dpc, share, viewVars, cntVars>>

(***************************************************************************)
(* Routes and the environment.                                             *)
(***************************************************************************)
\* the create route is opened: useState initial values (lines 138-150)
EnterCreate ==
    /\ page' = "create" /\ routeId' = 0
    /\ formData' = InitialFormData /\ originalData' = EmptyObject /\ errors' = EmptyObject
    /\ timers' = <<>> /\ isSubmitting' = FALSE /\ editLoading' = FALSE
    /\ fpc' = "editing" /\ fswal' = NoSwal /\ edits' = 0
    /\ ListUnmounted /\ HookUnmounted /\ DetailUnmounted
    /\ fcnt' = [f \in FlowNames |-> Counter]
    /\ ccnt' = [id \in ParkIds |-> Counter]
    /\ UNCHANGED <<online, net, gone>>

\* the :id the edit and detail routes are opened with
RouteIds == {Head(Ascending(ParkIds))}

\* the browser opens one of the routes of App
OpenRoute ==
    /\ page = "boot"
    /\ \/ EnterHome(net) /\ UNCHANGED online
       \/ EnterList
       \/ EnterCreate
       \/ \E id \in RouteIds : EnterEdit(id, net, [f \in FlowNames |-> Counter]) /\ UNCHANGED online
       \/ \E id \in RouteIds : EnterDetail(id)
       \/ EnterHook

\* navigator.onLine changes
ConnectivityChanges ==
    /\ online' = ~online
    /\ UNCHANGED <<page, net, formVars, listVars, hookVars, detailVars, cntVars>>

\* the views no record is rendered in: useState initial values of the
\* image flags (ParkCard lines 9-10, ParkDetail lines 12-13) and of the
\* controls of ParkList (lines 8-10)
Views == {"card", "detail"}
\* no DeleteConfirmationModal is rendered (no component of the app renders one)
NoModal == [isOpen |-> FALSE, isDeleting |-> FALSE, focus |-> "none", focusTimer |-> FALSE,
            input |-> "none", called |-> {}]
ViewsAtRest ==
    /\ modal = NoModal
    /\ imgPark = [park_img_url |-> <<>>, park_img_uri |-> <<>>]
    /\ imageError = [v \in Views |-> FALSE] /\ imageLoaded = [v \in Views |-> FALSE]
    /\ imgSrc = [v \in Views |-> <<>>] /\ loadTimer = FALSE
    /\ searchTerm = <<>> /\ filterCity = <<>> /\ sortBy = "name" /\ shown = <<>>

Unmounted ==
    /\ page = "boot" /\ net = <<>> /\ routeId = 0
    /\ formData = InitialFormData /\ originalData = EmptyObject /\ errors = EmptyObject
    /\ timers = <<>> /\ isSubmitting = FALSE /\ editLoading = FALSE
    /\ fpc = "none" /\ fswal = NoSwal /\ edits = 0
    /\ parks = <<>> /\ homeLoading = FALSE /\ listSwal = NoSwal
    /\ cpc = [id \in ParkIds |-> "idle"] /\ isDeleting = [id \in ParkIds |-> FALSE]
    /\ cswal = [id \in ParkIds |-> NoSwal] /\ cbParks = [id \in ParkIds |-> <<>>]
    /\ gone = {} /\ done = {}
    /\ hpc = "none" /\ hIsDeleting = FALSE /\ deleteError = Null /\ hswal = NoSwal
    /\ park = NoPark /\ detailLoading = FALSE /\ dpc = "none" /\ dswal = NoSwal
    /\ share = "none" /\ ViewsAtRest
    /\ fcnt = [f \in FlowNames |-> Counter]
    /\ ccnt = [id \in ParkIds |-> Counter]

\* nothing is mounted yet, or the create form is open on a draft the user
\* has filled in completely
Init ==
    /\ online \in BOOLEAN
    /\ \/ Unmounted
       \/ /\ page = "create" /\ net = <<>> /\ routeId = 0
          /\ formData = FilledFormData /\ originalData = EmptyObject /\ errors = FilledErrors
          /\ timers = <<>> /\ isSubmitting = FALSE /\ editLoading = FALSE
          /\ fpc = "editing" /\ fswal = NoSwal /\ edits = 0
          /\ parks = <<>> /\ homeLoading = FALSE /\ listSwal = NoSwal
          /\ cpc = [id \in ParkIds |-> "idle"] /\ isDeleting = [id \in ParkIds |-> FALSE]
          /\ cswal = [id \in ParkIds |-> NoSwal] /\ cbParks = [id \in ParkIds |-> <<>>]
          /\ gone = {} /\ done = {}
          /\ hpc = "none" /\ hIsDeleting = FALSE /\ deleteError = Null /\ hswal = NoSwal
          /\ park = NoPark /\ detailLoading = FALSE /\ dpc = "none" /\ dswal = NoSwal
          /\ share = "none" /\ ViewsAtRest
          /\ fcnt = [f \in FlowNames |-> Counter]
          /\ ccnt = [id \in ParkIds |-> Counter]

Next ==
    \/ OpenRoute
    \/ ConnectivityChanges
    \/ \E i \in DOMAIN net : \E resolves \in AwaitOutcomes : ListResponse(i, resolves)
    \/ \E confirmed \in BOOLEAN : ListRetry(confirmed)
    \/ ListSwalClose
    \/ \E withNotice \in BOOLEAN : HomeRefresh(withNotice)
    \/ \E name \in Fields : \E value \in InputValues(name) : handleChange(name, value)
    \/ TimerFires
    \/ \E viaButton \in BOOLEAN : CreateHandleSubmit(viaButton)
    \/ FormAlertOk
    \/ \E confirmed \in BOOLEAN : CreateConfirm(confirmed)
    \/ \E i \in DOMAIN net : CreateResponse(i)
    \/ CreateSuccessDone
    \/ \E confirmed \in BOOLEAN : CreateRetry(confirmed)
    \/ \E i \in DOMAIN net : EditLoadResponse(i)
    \/ \E confirmed \in BOOLEAN : EditLoadRetry(confirmed)
    \/ \E viaButton \in BOOLEAN : EditHandleSubmit(viaButton)
    \/ \E confirmed \in BOOLEAN : EditConfirm(confirmed)
    \/ \E i \in DOMAIN net : EditResponse(i)
    \/ EditSuccessDone
    \/ \E confirmed \in BOOLEAN : EditRetry(confirmed)
    \/ \E id \in ParkIds : handleDeleteClick(id)
    \/ \E id \in ParkIds : CardAlertOk(id)
    \/ \E id \in ParkIds : \E confirmed \in BOOLEAN : CardConfirm(id, confirmed)
    \/ \E i \in DOMAIN net : \E resolves \in AwaitOutcomes : CardResponse(i, resolves)
    \/ \E id \in ParkIds : CardToastDone(id)
    \/ \E id \in ParkIds : \E confirmed \in BOOLEAN : CardRetry(id, confirmed)
    \/ \E parkId \in ParkIds : deletePark(parkId)
    \/ \E confirmed \in BOOLEAN : HookConfirm(confirmed)
    \/ \E i \in DOMAIN net : HookResponse(i)
    \/ HookAlertDone
    \/ HookReload
    \/ \E i \in DOMAIN net : DetailResponse(i)
    \/ DetailAlertOk
    \/ \E confirmed \in BOOLEAN : DetailRetry(confirmed)
    \/ \E canShare \in BOOLEAN : handleShare(canShare)
    \/ \E fulfilled \in BOOLEAN : ShareSettles(fulfilled)
    \/ ShareToastDone

Spec == Init /\ [][Next]_vars

(***************************************************************************)
(* Properties.                                                             *)
(***************************************************************************)
\* number of requests in flight whose method is one of methods
InFlight(netNow, methods) == Cardinality({i \in DOMAIN netNow : netNow[i].method \in methods})

\* C1: in the create form and in the edit form, a step taken while
\* validateAll finds an error in the current draft issues no POST and no PUT
C1_InvalidDraftIssuesNoCall ==
    [][(page \in {"create", "edit"} /\ ~validateAll(formData))
        => InFlight(net', {"POST", "PUT"}) <= InFlight(net, {"POST", "PUT"})]_vars

\* C1: a draft with a city outside the allowed set was submitted in the
\* create form and the submit ended at the "Formulario incompleto" alert
C1_Witness ==
    /\ page = "create" /\ fpc = "alert" /\ fswal.title = "Formulario incompleto"
    /\ formData.park_city = Str_Leon /\ ~validateAll(formData)
    /\ net = <<>>

\* a step of the edit form in which handleSubmit runs on a draft that is
\* structurally equal to the snapshot seeded from the fetched record
UnchangedSubmit ==
    /\ page = "edit" /\ fpc = "editing" /\ page' = "edit" /\ fpc' # "editing"
    /\ ~hasChanges(formData, originalData)

\* C2 as stated: the submit of an unchanged draft made while online issues
\* no network call and ends at the "Sin cambios" notice, whatever the
\* fetched record holds
C2_UnchangedAlwaysNoChangesNotice ==
    [][(UnchangedSubmit /\ online) => (net' = net /\ fpc' = "alert" /\ fswal'.title = "Sin cambios")]_vars

\* C2 amended: the submit of an unchanged draft issues no network call and
\* ends at a notice: the offline notice when offline, else the
\* "Formulario incompleto" notice when validateAll finds an error in the
\* fetched record, else the "Sin cambios" notice
C2_UnchangedRejectedLocally ==
    [][UnchangedSubmit =>
        /\ net' = net /\ fpc' = "alert"
        /\ fswal'.title = IF ~online THEN "Sin conexion"
                          ELSE IF ~validateAll(formData) THEN "Formulario incompleto"
                          ELSE "Sin cambios"]_vars

\* C2: an unchanged draft was submitted in the edit form and the submit
\* ended at the "Sin cambios" notice without a request
C2_Witness ==
    /\ page = "edit" /\ fpc = "alert" /\ fswal.title = "Sin cambios"
    /\ ~hasChanges(formData, originalData) /\ net = <<>>

\* number of DELETE requests for the record id in flight
Deletes(netNow, id) ==
    Cardinality({i \in DOMAIN netNow : netNow[i].method = "DELETE" /\ netNow[i].id = id})

\* the card of id shows the error dialog of a DELETE that timed out
TimeoutShown(id) == cpc[id] = "error" /\ cswal[id].cause = TimeoutFailure

\* a step in which the user confirms the retry of the card of id
RetryConfirmed(id) == cpc[id] = "error" /\ ccnt'[id].retries = ccnt[id].retries + 1

\* C3 as stated: a DELETE that times out leaves the collection as it is and
\* offers the retry, and confirming that retry issues one more DELETE for
\* the same identifier
C3_RetryIssuesOneMoreCall ==
    [][\A id \in ParkIds :
        /\ (cpc[id] = "inflight" /\ TimeoutShown(id)') => (parks' = parks /\ cswal'[id].retry)
        /\ (TimeoutShown(id) /\ RetryConfirmed(id)) =>
              (parks' = parks /\ net' = Send(net, Request("card", "DELETE", id, NoData)))]_vars

\* C3 amended: a DELETE that times out leaves the collection as it is and
\* offers the retry; confirming that retry issues nothing by itself, it runs
\* handleDeleteClick again, which shows the offline notice when offline and
\* else asks "Eliminar parque?" again; the answer to that question issues
\* exactly one more DELETE for the same identifier when it is yes, none when no
C3_RetryReentersHandler ==
    [][\A id \in ParkIds :
        /\ (cpc[id] = "inflight" /\ TimeoutShown(id)') => (parks' = parks /\ cswal'[id].retry)
        /\ (TimeoutShown(id) /\ RetryConfirmed(id)) =>
              (parks' = parks /\ net' = net /\ cpc'[id] = IF online THEN "confirm" ELSE "alert")
        /\ (cpc[id] = "confirm" /\ ccnt[id].retries > 0 /\ cpc'[id] # "confirm") =>
              IF cpc'[id] = "inflight"
              THEN net' = Send(net, Request("card", "DELETE", id, NoData))
              ELSE Deletes(net', id) = Deletes(net, id)]_vars

\* C3: in Home a DELETE timed out, the retry was confirmed, the question
\* was answered yes again, and the one call that followed timed out as
\* well: the record is still in the collection
C3_Witness ==
    \E id \in ParkIds :
        /\ page = "home" /\ TimeoutShown(id) /\ cswal[id].retry
        /\ ccnt[id] = [reqs |-> 2, retries |-> 1]
        /\ \E i \in DOMAIN parks : parks[i] = id

\* the sequence seq without the identifier id
Without(seq, id) == SelectSeq(seq, LAMBDA x : x # id)

\* C4: when the delete handler of a card ends after a DELETE that
\* succeeded, the collection of the list view that renders the card holds
\* what it held before, less the deleted record
C4_DeletedRecordLeavesCollection ==
    [][\A id \in ParkIds :
        (cpc[id] = "toast" /\ cpc'[id] = "idle") => parks' = Without(parks, id)]_vars

\* the classification a failure notice stands for, read off its wording
ClassOf(label) ==
    CASE label = "Datos invalidos" -> "ValidationRejected"
      [] label \in {"Parque duplicado", "Conflicto de datos"} -> "Conflict"
      [] label = "Error del servidor" -> "ServerError"
      [] label = "Tiempo agotado" -> "Timeout"
      [] label = "Parque no encontrado" -> "NotFound"
      [] label = "No autorizado" -> "Unauthorized"
      [] label = "Sin permisos" -> "Forbidden"
      [] label = "Sin conexion" -> "Offline"
      [] OTHER -> "Unknown"

\* the classification the taxonomy gives a failed call
Taxonomy(error) ==
    IF error.status = 404 THEN "NotFound"
    ELSE IF error.status = 422 THEN "ValidationRejected"
    ELSE IF error.status = 409 THEN "Conflict"
    ELSE IF error.status = 401 THEN "Unauthorized"
    ELSE IF error.status \in 500..599 THEN "ServerError"
    ELSE IF error.code = "ECONNABORTED" THEN "Timeout"
    ELSE "Unknown"

\* a form, or the card of id, shows the notice of a failed call
FormFailed == page \in {"create", "edit"} /\ fpc = "error"
CardFailed(id) == page \in {"home", "list"} /\ cpc[id] = "error"

\* the classification that notice carries
FormClass == ClassOf(IF page = "create" THEN fswal.text ELSE fswal.title)
CardClass(id) == ClassOf(cswal[id].title)

\* C5: the notice of a failed create, update or delete carries the retry
\* button exactly when its classification is neither Offline nor Unauthorized
C5_RetryUnlessOfflineOrUnauthorized ==
    /\ FormFailed => (fswal.retry <=> FormClass \notin {"Offline", "Unauthorized"})
    /\ \A id \in ParkIds :
          CardFailed(id) => (cswal[id].retry <=> CardClass(id) \notin {"Offline", "Unauthorized"})

\* the notice of the offline check made before a call
OfflineNotice(swal) == swal.title = "Sin conexion" /\ ~swal.retry

\* number of GET /parks/{id} requests of the edit form in flight
Loads(netNow) == Cardinality({i \in DOMAIN netNow : netNow[i].src = "load"})

\* C6: a create submit, an update submit or a delete that is triggered
\* while navigator.onLine is false ends at the offline notice and issues no
\* request, and no step taken while it is false issues a record load
C6_OfflineTriggerEndsWithoutCall ==
    [][~online =>
        /\ (page \in {"create", "edit"} /\ page' = page /\ fpc = "editing" /\ fpc' # "editing")
              => (net' = net /\ OfflineNotice(fswal'))
        /\ Loads(net') <= Loads(net)
        /\ \A id \in ParkIds :
              (cpc[id] = "idle" /\ cpc'[id] # "idle") => (net' = net /\ OfflineNotice(cswal'[id]))
        /\ (hpc = "idle" /\ hpc' \notin {"idle", "none"}) => (net' = net /\ OfflineNotice(hswal'))]_vars

\* C7: the requests issued for one user action are never more than one
\* plus the retry confirmations the user gave in it
C7_RequestsBoundedByRetries ==
    /\ \A f \in FlowNames : fcnt[f].reqs <= 1 + fcnt[f].retries
    /\ \A id \in ParkIds : ccnt[id].reqs <= 1 + ccnt[id].retries

\* C8: at most one POST, PUT or DELETE is in flight
C8_OneMutationInFlight == InFlight(net, MutatingMethods) <= 1

\* a failed call's notice agrees with the taxonomy; a call that failed
\* without a response may also be told as a lost connection
Agrees(class, error) == class = Taxonomy(error) \/ (error = NetworkFailure /\ class = "Offline")

\* C9: the notice of a failed create, update or delete carries the
\* classification the taxonomy gives the failure
C9_ClassifiedByTaxonomy ==
    /\ FormFailed => Agrees(FormClass, fswal.cause)
    /\ \A id \in ParkIds : CardFailed(id) => Agrees(CardClass(id), cswal[id].cause)

\* the three catch blocks give the failure error one classification
SameClass(error) ==
    /\ ClassOf(CreateMessage(error)) = ClassOf(EditTitle(error))
    /\ ClassOf(EditTitle(error)) = ClassOf(CardErrorConfig(error, online).title)

\* C10: the failure a form or a card shows the notice of gets the same
\* classification from the create form, the edit form and the card
C10_SameClassificationEverywhere ==
    /\ FormFailed => SameClass(fswal.cause)
    /\ \A id \in ParkIds : CardFailed(id) => SameClass(cswal[id].cause)

\* number of GET /parks requests in flight
ListCalls(netNow) == Cardinality({i \in DOMAIN netNow : netNow[i].src = "list"})

\* a step in which a catch block of the forms, of a card, of the hook, of
\* the detail page or of fetchParks runs, and the popup it leaves
CaughtShown ==
    /\ (fpc' \in {"error", "loadError"} /\ fpc \in {"inflight", "loading"}) => fswal' # NoSwal
    /\ \A id \in ParkIds : (cpc'[id] = "error" /\ cpc[id] = "inflight") => cswal'[id] # NoSwal
    /\ (hpc' = "error" /\ hpc = "inflight") => hswal' # NoSwal
    /\ (dpc' = "error" /\ dpc = "loading") => dswal' # NoSwal
    /\ (page = "home" /\ page' = "home" /\ ListCalls(net') < ListCalls(net)
            /\ parks' = <<>> /\ gone # ParkIds) => listSwal'.retry

\* C11: every step in which a handler catches a failure (list load, record
\* load, create, update, delete by card or hook, share) leaves a popup on
\* the screen
C11_CaughtFailureIsShown ==
    [][CaughtShown /\ ((share' = "logged" /\ share # "logged") => dswal' # NoSwal)]_vars

\* the load of the edit form was answered 404 and its dialog is open
LoadNotFound == page = "edit" /\ fpc = "loadError" /\ fswal.cause.status = 404

\* C12: when GET /parks/{id} of the edit form answers 404 the dialog says
\* NotFound and offers the way back to the list, and neither the draft nor
\* the snapshot holds anything of the response: the form is not rendered
C12_LoadNotFoundSurfaced ==
    LoadNotFound =>
        /\ ClassOf(fswal.title) = "NotFound"
        /\ ENABLED EditLoadRetry(FALSE)
        /\ formData = InitialFormData /\ originalData = EmptyObject
        /\ editLoading /\ errors = EmptyObject

C12_Witness == LoadNotFound /\ fswal.retry /\ routeId \in RouteIds

\* a step in which the POST or PUT of the mounted form is answered and the
\* catch block does not run: axios resolved the call with a 2xx status
SubmitResolved ==
    /\ page \in {"create", "edit"} /\ fpc = "inflight"
    /\ Len(net') < Len(net)
    /\ fpc' # "error"

\* C13: a POST or PUT that completes with a 2xx status takes the form to
\* its success alert, and from there to the list view; no successful
\* response leaves the form mounted without navigation
C13_SuccessNavigates ==
    [][/\ SubmitResolved => fpc' = "success"
       /\ (fpc = "success" /\ fpc' # "success") => page' = "home"]_vars

\* the POST and PUT requests in flight
Submissions == {i \in DOMAIN net : net[i].method \in {"POST", "PUT"}}
\* the request the mounted form is waiting for
OwnSubmission(i) == fpc = "inflight" /\ net[i].src = page
HasLowercase(value) == \E k \in DOMAIN value : value[k] \in Range(LowerSeq)

\* C14: the abbreviation of every POST and PUT in flight has no lowercase
\* letter, and that of the request the form waits for is the draft's
\* abbreviation, trimmed and uppercased
C14_AbbreviationSentUppercase ==
    \A i \in Submissions :
        /\ ~HasLowercase(net[i].data.park_abbreviation)
        /\ OwnSubmission(i) =>
              net[i].data.park_abbreviation = toUpperCase(trim(formData.park_abbreviation))

C14_Witness ==
    \E i \in Submissions :
        /\ OwnSubmission(i) /\ net[i].method = "POST"
        /\ HasLowercase(formData.park_abbreviation)
        /\ net[i].data.park_abbreviation # formData.park_abbreviation

\* C15: no POST or PUT in flight carries an identifier in its payload, a
\* POST names no record, and every PUT of the mounted edit form, retries
\* included, is addressed to the identifier of the route
C15_IdentifierFromRouteOnly ==
    \A i \in Submissions :
        /\ "id" \notin DOMAIN net[i].data
        /\ net[i].method = "POST" => net[i].id = 0
        /\ (net[i].method = "PUT" /\ page = "edit") => net[i].id = routeId /\ routeId \in RouteIds

C15_Witness ==
    \E i \in Submissions :
        /\ net[i].method = "PUT" /\ OwnSubmission(i)
        /\ edits > 0 /\ fcnt["submit"].retries > 0

(***************************************************************************)
(* The validation rules on their own: a filled create form in which one    *)
(* input has just been typed into, its delayed validation still pending.   *)
(***************************************************************************)
\* how far from a length limit the typed strings go
MaxPad == 1
Rep(c, n) == [i \in 1..n |-> c]

\* strings whose length is within MaxPad of limit: one character repeated,
\* and a letter followed by that character repeated
Around(limit, chars) ==
    LET lengths == {n \in (limit - MaxPad)..(limit + MaxPad) : n >= 0}
    IN  {Rep(c, n) : c \in chars, n \in lengths}
            \cup {<<"a">> \o Rep(c, n - 1) : c \in chars, n \in lengths \ {0}}

\* values breaking the rule section 4.1 gives for the field; the state field
\* is free text and has none
Invalid(name) ==
    CASE name = "park_name" ->
            {<<>>, <<" "," "," ">>, <<"L","a">>, Rep("a", 101), <<"L","a","g","o","1">>}
      [] name = "park_abbreviation" ->
            {<<>>, <<"l">>, Rep("a", 11), <<"l","1">>, <<"l"," ","g">>}
      [] name = "park_img_url" ->
            {<<>>, <<"f","t","p",":","/","/","x",".","j","p","g">>,
             <<"h","t","t","p",":","/","/","x",".","g","i","f">>, <<"x",".","j","p","g">>}
      [] name = "park_address" -> {<<>>, Rep("a", 9), Rep("a", 151)}
      [] name = "park_city" -> {<<>>, Str_Leon}
      [] name = "park_zip_code" ->
            {<<>>, <<"4","6","1","0","0">>, <<"4","4","1","0">>, <<"4","4","1","0","a">>, <<"4","4","1","0","0","0">>}
      [] name = "park_latitude" ->
            {<<>>, <<"a","b","c">>, <<"1","9",".","9">>, <<"2","1",".","6">>, <<"-","2","0",".","7">>}
      [] name = "park_longitude" ->
            {<<>>, <<"a","b","c">>, <<"-","1","0","6">>, <<"-","1","0","1",".","9">>, <<"1","0","3",".","4">>}
      [] OTHER -> {}

\* the limits of the length-bounded fields
LengthFields == {"park_name", "park_abbreviation", "park_address"}
MinLength(name) == CASE name = "park_name" -> 3 [] name = "park_abbreviation" -> 2 [] OTHER -> 10
MaxLength(name) == CASE name = "park_name" -> 100 [] name = "park_abbreviation" -> 10 [] OTHER -> 150

\* what the modelled user types into the input called name
TypedValues(name) ==
    {FilledFormData[name]} \cup Invalid(name)
        \cup (IF name \in LengthFields
              THEN Around(MinLength(name), {"a", " ", "1"}) \cup Around(MaxLength(name), {"a", " ", "1"})
              ELSE {})

\* no list, hook or detail page is mounted
OnlyFormMounted ==
    /\ parks = <<>> /\ homeLoading = FALSE /\ listSwal = NoSwal
    /\ cpc = [id \in ParkIds |-> "idle"] /\ isDeleting = [id \in ParkIds |-> FALSE]
    /\ cswal = [id \in ParkIds |-> NoSwal] /\ cbParks = [id \in ParkIds |-> <<>>]
    /\ gone = {} /\ done = {}
    /\ hpc = "none" /\ hIsDeleting = FALSE /\ deleteError = Null /\ hswal = NoSwal
    /\ park = NoPark /\ detailLoading = FALSE /\ dpc = "none" /\ dswal = NoSwal
    /\ share = "none" /\ ViewsAtRest
    /\ fcnt = [f \in FlowNames |-> Counter]
    /\ ccnt = [id \in ParkIds |-> Counter]

\* the create form, filled in and validated, after handleChange(name, value)
RulesInit ==
    /\ online \in BOOLEAN
    /\ page = "create" /\ net = <<>> /\ routeId = 0
    /\ \E name \in Fields : \E value \in TypedValues(name) :
            /\ formData = [FilledFormData EXCEPT ![name] = value]
            /\ timers = <<[name |-> name, value |-> value]>>
    /\ originalData = EmptyObject /\ errors = FilledErrors
    /\ isSubmitting = FALSE /\ editLoading = FALSE
    /\ fpc = "editing" /\ fswal = NoSwal /\ edits = 1
    /\ OnlyFormMounted

RulesNext ==
    \/ TimerFires
    \/ \E viaButton \in BOOLEAN : CreateHandleSubmit(viaButton)
    \/ FormAlertOk

RulesSpec == RulesInit /\ [][RulesNext]_vars

\* the fields in which the draft differs from the valid record
Changed == {f \in Fields : formData[f] # FilledFormData[f]}
\* handleSubmit has run validateAll on the draft and its popup is open
ValidatedAll == page = "create" /\ fswal.title \in {"Formulario incompleto", "Crear parque?"}
\* the keys of errors that hold a message
Failing == {f \in DOMAIN errors : errors[f] # Undefined}

Message(f) == IF f \in DOMAIN errors THEN errors[f] ELSE Undefined
\* the typed value went through validate (its timer fired) or validateAll
Validated == timers = <<>> \/ ValidatedAll
OutOfBounds(f) == Len(formData[f]) < MinLength(f) \/ Len(formData[f]) > MaxLength(f)
InClass(f) ==
    CASE f = "park_name" -> AllIn(formData[f], Letters \cup Whitespace)
      [] f = "park_abbreviation" -> AllIn(formData[f], Letters)
      [] OTHER -> TRUE
Blank(f) == AllIn(formData[f], Whitespace)

storageBase == <<"h","t","t","p","s",":","/","/","a","z","u","r","i","t","a","a","3","3",".","s","g","-","h","o","s","t",".","c","o","m","/","s","t","o","r","a","g","e">>
Str_unsplash == <<"h","t","t","p","s",":","/","/","i","m","a","g","e","s",".","u","n","s","p","l","a","s","h",".","c","o","m","/","p","h","o","t","o","-","1","4","4","1","9","7","4","2","3","1","5","3","1","-","c","6","2","2","7","d","b","7","6","b","6","e">>
\* the fallback of each component (ParkCard.jsx line 28, ParkDetail line 21)
Placeholder(view) ==
    Str_unsplash \o (IF view = "card" THEN <<"?","w","=","4","0","0","&","h","=","3","0","0","&","f","i","t","=","c","r","o","p","&","q","=","8","0">> ELSE <<"?","w","=","8","0","0","&","h","=","4","0","0","&","f","i","t","=","c","r","o","p","&","q","=","8","0">>)

\* `https://azuritaa33.sg-host.com/storage/${park.park_img_uri}` with the
\* separator left out
storageUrlWithoutSeparator(path) == storageBase \o path

\* `https://azuritaa33.sg-host.com/storage/${park.park_img_uri}`
storageUrl(path) == storageBase \o <<"/">> \o path

\* getImageUrl that goes on using the server path after a load failure
getImageUrlPathKept(view, p, imageErrorNow) ==
    IF p.park_img_url # <<>> /\ ~imageErrorNow THEN p.park_img_url
    ELSE IF p.park_img_uri # <<>> THEN storageUrl(p.park_img_uri)
    ELSE Placeholder(view)

\* getImageUrl of both components; an absent or empty field is falsy
getImageUrl(view, p, imageErrorNow) ==
    IF p.park_img_url # <<>> /\ ~imageErrorNow THEN p.park_img_url
    ELSE IF p.park_img_uri # <<>> /\ ~imageErrorNow THEN storageUrl(p.park_img_uri)
    ELSE Placeholder(view)

\* image fields of the records rendered
ImgUrls == {<<>>, Str_imgUrl, <<"h","t","t","p","s",":","/","/","y",".","p","n","g">>}
ImgUris == {<<>>, <<"p",".","j","p","g">>, <<"a","/","b",".","p","n","g">>}
ImgParks == {[park_img_url |-> url, park_img_uri |-> uri] : url \in ImgUrls, uri \in ImgUris}

\* no form, card, hook or detail page is at work and no request is in flight
Idle ==
    /\ net = <<>> /\ routeId = 0
    /\ formData = InitialFormData /\ originalData = EmptyObject /\ errors = EmptyObject
    /\ timers = <<>> /\ isSubmitting = FALSE /\ editLoading = FALSE
    /\ fpc = "none" /\ fswal = NoSwal /\ edits = 0
    /\ homeLoading = FALSE /\ listSwal = NoSwal
    /\ cpc = [id \in ParkIds |-> "idle"] /\ isDeleting = [id \in ParkIds |-> FALSE]
    /\ cswal = [id \in ParkIds |-> NoSwal] /\ cbParks = [id \in ParkIds |-> <<>>]
    /\ gone = {} /\ done = {}
    /\ hpc = "none" /\ hIsDeleting = FALSE /\ deleteError = Null /\ hswal = NoSwal
    /\ park = NoPark /\ detailLoading = FALSE /\ dpc = "none" /\ dswal = NoSwal
    /\ share = "none"
    /\ fcnt = [f \in FlowNames |-> Counter]
    /\ ccnt = [id \in ParkIds |-> Counter]

\* both components mounted on one record: useState(false) twice each, and
\* the first render of the img element
ImageInit ==
    /\ online = TRUE /\ page = "boot" /\ parks = <<>> /\ Idle
    /\ imgPark \in ImgParks
    /\ imageError = [v \in Views |-> FALSE] /\ imageLoaded = [v \in Views |-> FALSE]
    /\ imgSrc = [v \in Views |-> getImageUrl(v, imgPark, FALSE)]
    /\ loadTimer = FALSE /\ modal = NoModal
    /\ searchTerm = <<>> /\ filterCity = <<>> /\ sortBy = "name" /\ shown = <<>>

imgUnchanged == UNCHANGED <<page, online, net, formVars, listVars, hookVars, park, detailLoading, dpc, dswal, share, imgPark, searchTerm, filterCity, sortBy, shown, modal, cntVars>>

\* onLoad of the img element: the browser could fetch the rendered src
imgOnLoad(view) ==
    /\ imageLoaded' = [imageLoaded EXCEPT ![view] = TRUE]
    /\ UNCHANGED <<imageError, imgSrc, loadTimer>>
    /\ imgUnchanged

\* onError of the img element (ParkCard.jsx 251-258, ParkDetail 237-242)
\* and the render that follows it; the browser may fail on any src
imgOnError(view) ==
    /\ IF imageError[view]
       THEN UNCHANGED <<imageError, imageLoaded, loadTimer>>
       ELSE /\ imageError' = [imageError EXCEPT ![view] = TRUE]
            /\ imageLoaded' = IF view = "card" THEN [imageLoaded EXCEPT ![view] = FALSE] ELSE imageLoaded
            /\ loadTimer' = IF view = "card" THEN TRUE ELSE loadTimer
    /\ imgSrc' = [imgSrc EXCEPT ![view] = getImageUrl(view, imgPark, imageError'[view])]
    /\ imgUnchanged

\* setTimeout(() => setImageLoaded(true), 100) of the card runs
imgTimerFires ==
    /\ loadTimer
    /\ loadTimer' = FALSE
    /\ imageLoaded' = [imageLoaded EXCEPT !["card"] = TRUE]
    /\ UNCHANGED <<imageError, imgSrc>>
    /\ imgUnchanged

ImageNext ==
    \/ \E view \in Views : imgOnLoad(view)
    \/ \E view \in Views : imgOnError(view)
    \/ imgTimerFires

ImageSpec == ImageInit /\ [][ImageNext]_vars

\* what the record holds
HasUrl == imgPark.park_img_url # <<>>
HasPath == imgPark.park_img_uri # <<>>

\* C18: before a load failure a record with an absolute URL is rendered
\* with that URL, one with a server path only with storageBase/path, one
\* with neither with the placeholder; card and detail page render the same
\* src unless both render their placeholder
C18_ImageResolution ==
    /\ \A v \in Views :
          ~imageError[v] =>
              /\ HasUrl => imgSrc[v] = imgPark.park_img_url
              /\ (~HasUrl /\ HasPath) => imgSrc[v] = storageBase \o <<"/">> \o imgPark.park_img_uri
              /\ (~HasUrl /\ ~HasPath) => imgSrc[v] = Placeholder(v)
    /\ (~imageError["card"] /\ ~imageError["detail"]) =>
          \/ imgSrc["card"] = imgSrc["detail"]
          \/ (~HasUrl /\ ~HasPath)

C18_Witness ==
    /\ ~imageError["card"] /\ ~imageError["detail"]
    /\ imageLoaded["card"] /\ imageLoaded["detail"]
    /\ ~HasUrl /\ HasPath /\ imgSrc["card"] = imgSrc["detail"]

\* C19: a load failure once recorded stays recorded, and from then on the
\* component renders its placeholder, never the URL or the server path
C19_FailureIsPermanent ==
    [][\A v \in Views :
          imageError[v] =>
              /\ imageError'[v]
              /\ imgSrc[v] = Placeholder(v) /\ imgSrc'[v] = Placeholder(v)]_vars

C19_Witness ==
    /\ imageError["card"] /\ imageLoaded["card"] /\ ~loadTimer
    /\ ~HasUrl /\ HasPath /\ imgSrc["card"] = Placeholder("card")

(***************************************************************************)
(* ParkList: the derived view of the parks it is handed.                   *)
(***************************************************************************)
\* number of records a list is handed
MaxListed == 3
ListIds == 1..MaxListed

\* the fields of the listed records the view reads
ListedPark(id) ==
    CASE id = 1 -> [id |-> 1, park_name |-> Str_Lago, park_city |-> Str_Zapopan,
                    park_state |-> Str_Jalisco, park_address |-> <<"C","a","l","l","e"," ","U","n","o">>]
      [] id = 2 -> [id |-> 2, park_name |-> <<"b","o","s","q","u","e">>, park_city |-> <<"G","u","a","d","a","l","a","j","a","r","a">>,
                    park_state |-> Str_Jalisco, park_address |-> <<"A","v"," ","D","o","s">>]
      [] id = 3 -> [id |-> 3, park_name |-> <<"A","l","a","m","e","d","a">>, park_city |-> Str_Zapopan,
                    park_state |-> Str_Jalisco, park_address |-> <<"C","a","l","l","e"," ","T","r","e","s">>]
      [] OTHER  -> [id |-> id, park_name |-> <<"l","a","g","o">>, park_city |-> <<"G","u","a","d","a","l","a","j","a","r","a">>,
                    park_state |-> Str_Jalisco, park_address |-> <<"A","v"," ","C","u","a","t","r","o">>]

\* String.prototype.includes
includes(s, t) == \E i \in 0..(Len(s) - Len(t)) : SubSeq(s, i + 1, i + Len(t)) = t

\* matchesSearch and matchesCity of the filter callback (lines 20-29)
matchesSearch(p, term) ==
    \/ term = <<>>
    \/ includes(toLowerCase(p.park_name), toLowerCase(term))
    \/ includes(toLowerCase(p.park_city), toLowerCase(term))
    \/ includes(toLowerCase(p.park_state), toLowerCase(term))
    \/ includes(toLowerCase(p.park_address), toLowerCase(term))
matchesCity(p, city) == city = <<>> \/ p.park_city = city

\* String.prototype.localeCompare on words of letters: alphabetical whatever
\* the case, then the shorter word, then lowercase before uppercase
localeCompare(a, b) ==
    LET la == toLowerCase(a)
        lb == toLowerCase(b)
        differ == {i \in DOMAIN a \cap DOMAIN b : la[i] # lb[i]}
        cased == {i \in DOMAIN a \cap DOMAIN b : a[i] # b[i]}
        first(S) == CHOOSE i \in S : \A j \in S : i <= j
    IN  IF differ # {}
        THEN (IF IndexOf(la[first(differ)], LowerSeq) < IndexOf(lb[first(differ)], LowerSeq) THEN 0 - 1 ELSE 1)
        ELSE IF Len(a) # Len(b) THEN (IF Len(a) < Len(b) THEN 0 - 1 ELSE 1)
        ELSE IF cased = {} THEN 0
        ELSE IF a[first(cased)] \in Range(LowerSeq) THEN 0 - 1 ELSE 1

\* the comparator handed to sort (lines 33-43)
compareParks(a, b, key) ==
    CASE key = "city" -> localeCompare(a.park_city, b.park_city)
      [] key = "recent" -> b.id - a.id
      [] OTHER -> localeCompare(a.park_name, b.park_name)

\* Array.prototype.sort: stable, by insertion from the left
RECURSIVE sort(_, _)
sort(ids, key) ==
    IF ids = <<>> THEN <<>>
    ELSE LET front == sort(SubSeq(ids, 1, Len(ids) - 1), key)
             last == ids[Len(ids)]
             k == Cardinality({i \in DOMAIN front : compareParks(ListedPark(front[i]), ListedPark(last), key) <= 0})
         IN  SubSeq(front, 1, k) \o <<last>> \o SubSeq(front, k + 1, Len(front))

\* the memo computed with sort applied to the array the component was
\* handed, in place of the array filter returned
filteredAndSortedParksInPlace(held, term, city, key) ==
    [held |-> sort(held, key),
     view |-> SelectSeq(sort(held, key), LAMBDA id : matchesSearch(ListedPark(id), term) /\ matchesCity(ListedPark(id), city))]

\* filteredAndSortedParks (lines 19-46): the array of the parks prop after
\* the computation, and the array the memo returns
filteredAndSortedParks(held, term, city, key) ==
    [held |-> held,
     view |-> sort(SelectSeq(held, LAMBDA id : matchesSearch(ListedPark(id), term) /\ matchesCity(ListedPark(id), city)), key)]

\* the arrays a list can be handed: any records in any order
Collections ==
    {c \in UNION {[1..n -> ListIds] : n \in 0..MaxListed} : \A i, j \in DOMAIN c : c[i] = c[j] => i = j}

\* what the modelled user types into the search box
SearchTerms == {<<>>, <<"L","A","G">>, <<"z","a","p","o">>, <<"c","a","l","l","e">>, <<"q">>}
\* the options of the city select: cities (lines 13-16)
cities(held) == {ListedPark(held[i]).park_city : i \in DOMAIN held}
SortKeys == {"name", "city", "recent"}

\* ParkList mounted with its parks prop: useState initial values, first render
ListInit ==
    /\ online = TRUE /\ page = "list" /\ Idle
    /\ parks \in Collections
    /\ searchTerm = <<>> /\ filterCity = <<>> /\ sortBy = "name"
    /\ shown = filteredAndSortedParks(parks, <<>>, <<>>, "name").view
    /\ imgPark = [park_img_url |-> <<>>, park_img_uri |-> <<>>]
    /\ imageError = [v \in Views |-> FALSE] /\ imageLoaded = [v \in Views |-> FALSE]
    /\ imgSrc = [v \in Views |-> <<>>] /\ loadTimer = FALSE /\ modal = NoModal

\* a render of ParkList after a state change: the memo is computed again
ListRender(term, city, key) ==
    /\ searchTerm' = term /\ filterCity' = city /\ sortBy' = key
    /\ parks' = filteredAndSortedParks(parks, term, city, key).held
    /\ shown' = filteredAndSortedParks(parks, term, city, key).view
    /\ UNCHANGED <<page, online, net, formVars, homeLoading, listSwal, cpc, isDeleting, cswal, cbParks, gone, done, hookVars, park, detailLoading, dpc, dswal, share, imgPark, imageError, imageLoaded, imgSrc, loadTimer, modal, cntVars>>

\* onChange of the search box, of the city select and of the sort select
setSearchTerm(value) == value # searchTerm /\ ListRender(value, filterCity, sortBy)
setFilterCity(value) == value # filterCity /\ ListRender(searchTerm, value, sortBy)
setSortBy(value) == value # sortBy /\ ListRender(searchTerm, filterCity, value)
\* clearFilters (lines 61-65)
clearFilters ==
    /\ <<searchTerm, filterCity, sortBy>> # <<<<>>, <<>>, "name">>
    /\ ListRender(<<>>, <<>>, "name")

ListNext ==
    \/ \E value \in SearchTerms : setSearchTerm(value)
    \/ \E value \in cities(parks) \cup {<<>>} : setFilterCity(value)
    \/ \E value \in SortKeys : setSortBy(value)
    \/ clearFilters

ListSpec == ListInit /\ [][ListNext]_vars

\* the term occurs in the text, whatever the case of either
Occurs(term, text) ==
    \E at \in 0..(Len(text) - Len(term)) :
        \A k \in 1..Len(term) : LowerChar(text[at + k]) = LowerChar(term[k])
\* the record matches the search term and the city filter
Matching(id) ==
    /\ \/ searchTerm = <<>>
       \/ \E f \in {"park_name", "park_city", "park_state", "park_address"} : Occurs(searchTerm, ListedPark(id)[f])
    /\ filterCity = <<>> \/ ListedPark(id).park_city = filterCity
\* word a comes no later than word b in the alphabet, case apart
RECURSIVE Alphabetical(_, _)
Alphabetical(a, b) ==
    \/ a = <<>>
    \/ /\ b # <<>>
       /\ \/ IndexOf(LowerChar(Head(a)), LowerSeq) < IndexOf(LowerChar(Head(b)), LowerSeq)
          \/ LowerChar(Head(a)) = LowerChar(Head(b)) /\ Alphabetical(Tail(a), Tail(b))
\* two records stand in the order of the chosen sort key
InOrder(first, second) ==
    CASE sortBy = "recent" -> first > second
      [] sortBy = "city" -> Alphabetical(ListedPark(first).park_city, ListedPark(second).park_city)
      [] OTHER -> Alphabetical(ListedPark(first).park_name, ListedPark(second).park_name)
\* the view holds the matching records of the held array, once each, in order
ViewDerived ==
    /\ {shown[i] : i \in DOMAIN shown} = {parks[i] : i \in {j \in DOMAIN parks : Matching(parks[j])}}
    /\ \A i, j \in DOMAIN shown : i < j => (shown[i] # shown[j] /\ InOrder(shown[i], shown[j]))

\* C20: after every render the view of ParkList holds exactly the records
\* of the parks prop that match the search term and the city filter, in
\* the order of the sort key, and the parks prop is as it was
C20_DerivedView ==
    [][ViewDerived /\ ViewDerived' /\ parks' = parks]_vars

C20_Witness ==
    /\ page = "list" /\ Len(parks) = MaxListed /\ parks[1] < parks[2]
    /\ searchTerm # <<>> /\ filterCity # <<>> /\ sortBy = "recent"
    /\ Len(shown) = 2 /\ shown[1] > shown[2]

(***************************************************************************)
(* The two forms on their own: what the create and the edit route do up    *)
(* to the navigation that leaves them.                                     *)
(***************************************************************************)
\* the create or the edit route is opened
OpenForm ==
    /\ page = "boot"
    /\ \/ EnterCreate
       \/ \E id \in RouteIds : EnterEdit(id, net, [f \in FlowNames |-> Counter]) /\ UNCHANGED online

FormNext ==
    \/ OpenForm
    \/ ConnectivityChanges
    \/ \E name \in Fields : \E value \in InputValues(name) : handleChange(name, value)
    \/ TimerFires
    \/ \E viaButton \in BOOLEAN : CreateHandleSubmit(viaButton)
    \/ FormAlertOk
    \/ \E confirmed \in BOOLEAN : CreateConfirm(confirmed)
    \/ \E i \in DOMAIN net : CreateResponse(i)
    \/ CreateSuccessDone
    \/ \E confirmed \in BOOLEAN : CreateRetry(confirmed)
    \/ \E i \in DOMAIN net : EditLoadResponse(i)
    \/ \E confirmed \in BOOLEAN : EditLoadRetry(confirmed)
    \/ \E viaButton \in BOOLEAN : EditHandleSubmit(viaButton)
    \/ \E confirmed \in BOOLEAN : EditConfirm(confirmed)
    \/ \E i \in DOMAIN net : EditResponse(i)
    \/ EditSuccessDone
    \/ \E confirmed \in BOOLEAN : EditRetry(confirmed)

FormSpec == Init /\ [][FormNext]_vars

\* a submit of the mounted form is under way: question, call or retry dialog
SubmitPass == page \in {"create", "edit"} /\ fpc \in {"confirm", "inflight", "error"}
\* the retry dialog of a failed POST or PUT is answered "Cancelar"
RetryCancelled == page \in {"create", "edit"} /\ fpc = "error" /\ fpc' = "editing"

\* C21: from the confirmation question to the answer of the retry dialog
\* the draft and the snapshot stay as they were at the submit, and the
\* cancel answer leaves the form mounted in Editing with isSubmitting
\* false and issues no request
C21_CancelledRetryHasNoEffect ==
    [][/\ (SubmitPass /\ page' = page) => (formData' = formData /\ originalData' = originalData)
       /\ RetryCancelled =>
             /\ ~isSubmitting' /\ page' = page /\ net' = net
             /\ formData' = formData /\ originalData' = originalData]_vars

C21_Witness ==
    /\ page = "edit" /\ fpc = "error" /\ isSubmitting /\ fswal.retry
    /\ hasChanges(formData, originalData) /\ fcnt["submit"].retries > 0

\* a GET /parks of the mounted list view fails: its catch block opens the
\* retry dialog
ListFetchFails ==
    /\ page = "home" /\ page' = "home"
    /\ ListCalls(net') < ListCalls(net)
    /\ listSwal'.title = "Error al cargar parques"
\* the retry dialog of fetchParks is answered "Cancelar"
ListRetryCancelled ==
    page = "home" /\ page' = "home" /\ listSwal.retry /\ listSwal' = NoSwal /\ net' = net

\* C22: a list fetch that fails, and the cancel answer to its retry dialog,
\* leave the collection the list view held before the fetch
C22_FailedFetchKeepsCollection ==
    [][(ListFetchFails \/ ListRetryCancelled) => parks' = parks]_vars

\* the step issues a request of the method
Issues(method) == InFlight(net', {method}) > InFlight(net, {method})
\* the confirmation question of a flow is open, and the step answers it "yes"
FormConfirmed(question) == fpc = "confirm" /\ fswal.title = question /\ fpc' = "inflight"
CardConfirmed(id) == cpc[id] = "confirm" /\ cswal[id].title = "Eliminar parque?" /\ cpc'[id] = "inflight"
HookConfirmed == hpc = "confirm" /\ hswal.title = "Eliminar parque?" /\ hpc' = "inflight"
\* the step answers a confirmation question "no" (no call ends in it)
Declines ==
    /\ Len(net') >= Len(net)
    /\ \/ page \in {"create", "edit"} /\ fpc = "confirm" /\ fpc' = "editing"
       \/ \E id \in ParkIds : page \in {"home", "list"} /\ cpc[id] = "confirm" /\ cpc'[id] = "idle"
       \/ page = "hook" /\ hpc = "confirm" /\ hpc' = "idle"

\* C23: a POST, PUT or DELETE is issued only by the step that answers the
\* confirmation question of its handler with yes, on first attempts and on
\* retry passes; answering no issues nothing and leaves the draft, the
\* collection and the in-progress flags as they are
C23_MutationsAreConfirmed ==
    [][/\ Issues("POST") => (page = "create" /\ FormConfirmed("Crear parque?"))
       /\ Issues("PUT") => (page = "edit" /\ FormConfirmed("Actualizar parque?"))
       /\ Issues("DELETE") => ((\E id \in ParkIds : CardConfirmed(id)) \/ HookConfirmed)
       /\ Declines =>
             /\ net' = net /\ formData' = formData /\ originalData' = originalData /\ parks' = parks
             /\ isSubmitting' = isSubmitting /\ isDeleting' = isDeleting /\ hIsDeleting' = hIsDeleting]_vars

C23_Witness ==
    \E id \in ParkIds :
        /\ page = "home" /\ cpc[id] = "inflight" /\ ccnt[id].retries > 0
        /\ \E i \in DOMAIN net : net[i].method = "DELETE" /\ net[i].id = id

C25_ListFetchesNotParallel ==
    page = "home" =>
        /\ ListCalls(net) <= 1
        /\ ListCalls(net) > 0 => homeLoading

\* C26: the count of the notice "Formulario incompleto" equals the number of
\* fields of the current draft that fail their rule, whatever validations
\* ran before the submit
C26_NoticeCountsFailingFields ==
    (page \in {"create", "edit"} /\ fswal.title = "Formulario incompleto") =>
        fswal.count = Cardinality(DOMAIN newErrors(formData))

\* the edit form shows the draft of a record it loaded
DraftSeeded == page = "edit" /\ fpc \notin {"loading", "loadError"}

\* C27: in the edit form hasChanges is false right after the load (no field
\* edited yet), and after any edits it is true exactly when some field of
\* the draft differs from the snapshot taken at the load
C27_HasChangesIffDraftDiffers ==
    DraftSeeded =>
        /\ edits = 0 => ~hasChanges(formData, originalData)
        /\ hasChanges(formData, originalData) <=>
              (\E f \in DOMAIN formData \cup DOMAIN originalData :
                  f \notin DOMAIN formData \/ f \notin DOMAIN originalData \/ formData[f] # originalData[f])

\* C27: a field was edited and set back to its loaded value
C27_Witness ==
    /\ DraftSeeded /\ fpc = "editing" /\ edits >= 2
    /\ ~hasChanges(formData, originalData)

(***************************************************************************)
(* The create form with one typed value, up to the POST: the rules of      *)
(* validateAll against the transformation of lines 198-208.                *)
(***************************************************************************)
SendNext ==
    \/ RulesNext
    \/ \E confirmed \in BOOLEAN : CreateConfirm(confirmed)

SendSpec == RulesInit /\ [][SendNext]_vars

\* C28: the name, the abbreviation and the address a POST or PUT carries
\* have, as transmitted, a length within the bounds of their rules:
\* [3,100], [2,10] and [10,150]
C28_TransmittedWithinBounds ==
    \A i \in DOMAIN net :
        net[i].method \in {"POST", "PUT"} =>
            \A f \in LengthFields : Len(net[i].data[f]) \in MinLength(f)..MaxLength(f)

(***************************************************************************)
(* The create form right after a burst of changes, every one of them with  *)
(* its delayed validation still pending (handleChange cancels no timer).   *)
(***************************************************************************)
\* changes typed within one 300 ms window
MaxPending == 2

Change == UNION {{[name |-> name, value |-> value] : value \in InputValues(name)} : name \in Fields}
Bursts == UNION {[1..n -> Change] : n \in 1..MaxPending}

\* the draft after setFormData(prev => ({...prev, [name]: value})) of each change
Typed(fd, changes) ==
    [f \in DOMAIN fd |->
        LET at == {i \in DOMAIN changes : changes[i].name = f}
        IN  IF at = {} THEN fd[f] ELSE changes[CHOOSE i \in at : \A j \in at : j <= i].value]

LiveInit ==
    /\ online \in BOOLEAN
    /\ page = "create" /\ net = <<>> /\ routeId = 0
    /\ \E changes \in Bursts :
            /\ formData = Typed(InitialFormData, changes)
            /\ timers = changes
            /\ edits = Len(changes)
    /\ originalData = EmptyObject /\ errors = EmptyObject
    /\ isSubmitting = FALSE /\ editLoading = FALSE
    /\ fpc = "editing" /\ fswal = NoSwal
    /\ OnlyFormMounted

LiveNext ==
    \/ \E name \in Fields : \E value \in InputValues(name) : handleChange(name, value)
    \/ TimerFires
    \/ \E viaButton \in BOOLEAN : CreateHandleSubmit(viaButton)
    \/ FormAlertOk

LiveSpec == LiveInit /\ [][LiveNext]_vars

\* the draft a form starts from: the empty one, or the loaded record
Seed == IF page = "edit" THEN originalData ELSE InitialFormData
\* the fields known to have been validated or typed into
Touched == DOMAIN errors \cup {f \in DOMAIN formData : f \notin DOMAIN Seed \/ formData[f] # Seed[f]}
\* what the rule of a field gives for the value the draft holds
RuleOnDraft(f) ==
    IF validationRules(f, formData[f]) # Null THEN validationRules(f, formData[f]) ELSE Undefined

\* C29: once every scheduled validation has run, in the order of the
\* edits, the error shown for each field that was typed into or validated
\* is the one its rule gives for the value the draft holds now
C29_LiveValidationConverges ==
    ((page = "create" \/ DraftSeeded) /\ timers = <<>>) =>
        \A f \in Touched : Message(f) = RuleOnDraft(f)

\* C29: two edits were made, their validations ran, and a field that was
\* typed into shows the error of its rule
C29_Witness ==
    /\ page \in {"create", "edit"} /\ fpc = "editing" /\ timers = <<>> /\ edits >= 2
    /\ \E f \in DOMAIN formData : f \in DOMAIN Seed /\ formData[f] # Seed[f] /\ Message(f) # Undefined

(***************************************************************************)
(* DeleteConfirmationModal rendered by a parent that owns its props, with  *)
(* the inputs the user can give it.                                        *)
(***************************************************************************)
Buttons == {"close", "cancel", "confirm"}
Keys == {"Escape", "Enter", "Ctrl+Enter", "a"}
ClickTargets == Buttons \cup {"backdrop", "dialog"}

\* handleKeyPress (lines 21-31): the callbacks it invokes
handleKeyPress(key, deleting) ==
    IF deleting THEN {}
    ELSE IF key = "Escape" THEN {"onClose"}
    ELSE IF key = "Ctrl+Enter" THEN {"onConfirm"}
    ELSE {}

\* handleBackdropClick (lines 68-72): target is where the click landed
handleBackdropClick(target, deleting) ==
    IF target = "backdrop" /\ ~deleting THEN {"onClose"} ELSE {}

\* onClick of the three buttons (lines 119, 199, 208); a disabled button
\* (lines 120, 200, 209) dispatches no click
onClick(button, deleting) ==
    IF deleting \/ button \notin Buttons THEN {}
    ELSE IF button = "confirm" THEN {"onConfirm"}
    ELSE {"onClose"}

\* the component is rendered: the effect of lines 18-51 has registered the
\* listeners and scheduled the focus of the confirm button when isOpen
ModalInit ==
    /\ online = TRUE /\ page = "boot" /\ parks = <<>> /\ Idle
    /\ imgPark = [park_img_url |-> <<>>, park_img_uri |-> <<>>]
    /\ imageError = [v \in Views |-> FALSE] /\ imageLoaded = [v \in Views |-> FALSE]
    /\ imgSrc = [v \in Views |-> <<>>] /\ loadTimer = FALSE
    /\ searchTerm = <<>> /\ filterCity = <<>> /\ sortBy = "name" /\ shown = <<>>
    /\ \E open, deleting \in BOOLEAN :
            modal = [NoModal EXCEPT !.isOpen = open, !.isDeleting = deleting, !.focusTimer = open]

modalUnchanged ==
    UNCHANGED <<page, online, net, formVars, listVars, hookVars, park, detailLoading, dpc, dswal, share,
                imgPark, imageError, imageLoaded, imgSrc, loadTimer, searchTerm, filterCity, sortBy, shown, cntVars>>

\* the parent renders the modal with other props (lines 5-10): the effect
\* runs again and, when isOpen, schedules the focus again (lines 43-45);
\* a modal that is not open renders nothing (line 66)
ParentRenders(open, deleting) ==
    /\ <<open, deleting>> # <<modal.isOpen, modal.isDeleting>>
    /\ modal' = [isOpen |-> open, isDeleting |-> deleting,
                 focus |-> IF open THEN modal.focus ELSE "none",
                 focusTimer |-> open \/ modal.focusTimer,
                 input |-> "none", called |-> {}]
    /\ modalUnchanged

\* setTimeout(() => confirmButtonRef.current?.focus(), 100) runs; focus()
\* does nothing on a disabled button or without the button
FocusTimerFires ==
    /\ modal.focusTimer
    /\ modal' = [modal EXCEPT !.focusTimer = FALSE,
                              !.focus = IF modal.isOpen /\ ~modal.isDeleting THEN "confirm" ELSE @]
    /\ modalUnchanged

\* the user moves the focus to an enabled button with Tab
Tab(button) ==
    /\ modal.isOpen /\ ~modal.isDeleting /\ button # modal.focus
    /\ modal' = [modal EXCEPT !.focus = button, !.input = "Tab", !.called = {}]
    /\ modalUnchanged

\* a key goes down: the listener of line 39 runs handleKeyPress, and the
\* browser activates the focused enabled button on Enter, which runs its
\* onClick; whether Enter pressed with Ctrl activates it as well depends
\* on the browser
KeyDown(key, activates) ==
    /\ modal.isOpen
    /\ activates => key \in {"Enter", "Ctrl+Enter"}
    /\ key = "Enter" => activates
    /\ modal' = [modal EXCEPT !.input = key,
                              !.called = handleKeyPress(key, modal.isDeleting)
                                            \cup (IF activates THEN onClick(modal.focus, modal.isDeleting) ELSE {})]
    /\ modalUnchanged

\* a click on the backdrop, on the dialog outside its buttons, or on a
\* button: the button's onClick, then handleBackdropClick as the click
\* bubbles to the backdrop (line 105); the clicked button takes the focus
Click(target) ==
    /\ modal.isOpen
    /\ modal' = [modal EXCEPT !.input = target,
                              !.called = onClick(target, modal.isDeleting)
                                            \cup handleBackdropClick(target, modal.isDeleting),
                              !.focus = IF target \in Buttons /\ ~modal.isDeleting THEN target ELSE @]
    /\ modalUnchanged

ModalNext ==
    \/ \E open, deleting \in BOOLEAN : ParentRenders(open, deleting)
    \/ FocusTimerFires
    \/ \E button \in Buttons : Tab(button)
    \/ \E key \in Keys : \E activates \in BOOLEAN : KeyDown(key, activates)
    \/ \E target \in ClickTargets : Click(target)

ModalSpec == ModalInit /\ [][ModalNext]_vars

\* C30: while the modal is open with isDeleting true no input invokes
\* onClose or onConfirm; while isDeleting is false Escape and a click on
\* the backdrop invoke onClose only, Ctrl+Enter invokes onConfirm only,
\* and plain Enter does not invoke onConfirm
C30_ModalInputsGuarded ==
    (modal.isOpen /\ modal.input # "none") =>
        IF modal.isDeleting
        THEN modal.called = {}
        ELSE /\ modal.input \in {"Escape", "backdrop"} => modal.called = {"onClose"}
             /\ modal.input = "Ctrl+Enter" => modal.called = {"onConfirm"}
             /\ modal.input = "Enter" => "onConfirm" \notin modal.called

====
